---- MODULE Spec2Model ----
(***************************************************************************)
(* Transit: the place-occupancy manager (places.py), the session authority *)
(* and the REGISTER / LOGIN handlers (TransitSystem.py, main.py).          *)
(*                                                                         *)
(* Time is counted in ticks, TicksPerSecond ticks to the second, so that   *)
(* main.py's truncation of timestamps to whole seconds is visible.         *)
(***************************************************************************)
EXTENDS Integers, Sequences, FiniteSets, Bags, TLC

\* Python's None in a nullable Integer column (the columns hold no negatives).
None == -1

\* ------------------------------------------------------------------ bounds
TicksPerSecond == 2
\* Calls the vehicles make on the occupancy manager, all together.
MaxCalls == 3
\* Times the clock is advanced in one behaviour of the occupancy manager.
MaxPlaceAdvance == 1
\* Times the clock is advanced in one behaviour of the session authority.
MaxAdvance == 2
\* Sessions created in one behaviour.
MaxSessions == 3
\* the rows the locations table may hold
MaxLocations == 2
\* the messages a connection carries
MaxFrames == 3
\* how often the clock is advanced while a connection is served
MaxServerAdvance == 1
\* the datagrams the listener reads
MaxDatagrams == 3
\* the messages one of the concurrent connections carries
MaxRequests == 1

\* ------------------------------------------------------- program constants
\* places.py: `place.stay_time_seconds or 60`
DEFAULT_STAY_SECONDS == 60
\* create_session: `datetime.timedelta(hours=1)`
SESSION_TTL_HOURS == 1
SECONDS_PER_HOUR == 3600

\* --------------------------------------------------------------- the data
\* The vehicle processes that call the occupancy manager (one process each).
VehicleIds == {"B101", "B102", "U103"}

\* The rows of the places table: immutable reference data after seeding.
Place ==
    [ P1 |-> [max_capacity |-> 1,    stay_time_seconds |-> 2,    pass_through |-> FALSE],
      P2 |-> [max_capacity |-> 0,    stay_time_seconds |-> None, pass_through |-> TRUE ],
      P3 |-> [max_capacity |-> 2,    stay_time_seconds |-> None, pass_through |-> FALSE],
      P4 |-> [max_capacity |-> None, stay_time_seconds |-> 0,    pass_through |-> FALSE] ]

\* The place ids callers pass: every row's id and one id of no row.
PlaceIds == DOMAIN Place \cup {"P9"}

\* The two servers of the repository: main.py (sqlite3, passwords, timestamps
\* stored as whole seconds) and TransitSystem.py (SQLAlchemy, datetimes).
Impls == {"main", "TransitSystem"}

\* The vehicle ids clients send; the first character is the type tag.
ClientIds == {"B101", "U103", "X900"}

\* self.vid[0]
FirstChar == [B101 |-> "B", B102 |-> "B", U103 |-> "U", X900 |-> "X"]

\* class VehicleType(Enum): the values
VehicleType == {"T", "B", "U", "S"}

\* No password given (None), and the passwords clients send with REGISTER
\* and with LOGIN.
NoPassword == "<None>"
RegisterPasswords == {NoPassword, "pw1"}
LoginPasswords == {NoPassword, "pw1", "pw2"}

\* str(uuid.uuid4()): the n-th uuid drawn. The draws never repeat.
Uuid == <<"t1", "t2", "t3", "t4", "t5">>

\* The session ids callers present once n uuids are drawn: those drawn, one
\* never drawn, the empty one.
TokenInputs(n) == {Uuid[i] : i \in 1..n} \cup {"t0", ""}
AllTokenInputs == TokenInputs(Len(Uuid))

\* The ids with a type tag of VehicleType: those a validation is asked for.
TaggedIds == {vid \in ClientIds : FirstChar[vid] \in VehicleType}

VARIABLES
    impl,       \* which server runs
    vehicles,   \* the vehicles table: vehicle_id -> row
    sessions,   \* the sessions table: session_id -> row
    nuuid,      \* the uuids drawn so far
    ret,        \* the last operation of the server and what it returned
    now,        \* the wall clock, in ticks
    nadv,       \* how often the clock was advanced
    occupancy,  \* the place_occupancy table: a bag of rows
    pc,         \* per vehicle: "ready", or "insert" inside try_enter_place
    arg,        \* per vehicle: the place_id of the try_enter_place in progress
    res,        \* per vehicle: the last call it completed, and what it returned
    ncalls,     \* per vehicle: the calls it completed
    nstarted,   \* the calls begun, all vehicles together
    locations,  \* the locations table: the rows in the order of their insert
    conn,       \* the client connection handle_client serves
    nframes,    \* the messages handle_client has read from it
    request,    \* the fields of the last of them
    routes,     \* the routes table: vehicle_id -> its place ids by step_index
    self,       \* the Vehicle object of the vehicle process
    thread,     \* where the run method and its run_route_loop thread are
    probe,      \* the last is_position_occupied call and how it ended
    omcalls,    \* the places.py calls run_route_loop has made
    events,     \* those calls and the status reports it sent, in their order
    threads,    \* the server's threads: the accept loop, the UDP listener and
                \* one handle_client per accepted connection
    sockets,    \* per connection: what its socket does on the next call
    inflight,   \* per connection: the command its handler is executing
    answers,    \* per connection: the responses written to it
    dbsession,  \* TransitSystem.py: the SQLAlchemy session all threads share
    writer,     \* main.py: the sqlite connection whose open transaction holds
                \* the write lock of the database file
    datagrams   \* the datagrams the UDP listener has read

placeVars == <<occupancy, pc, arg, res, ncalls, nstarted>>
clockVars == <<now, nadv>>
sessionVars == <<impl, vehicles, sessions, nuuid, ret>>
wireVars == <<locations, conn, nframes, request>>
motionVars == <<routes, self, thread, probe, omcalls, events>>
netVars == <<threads, sockets, inflight, answers, dbsession, writer, datagrams>>
vars == <<impl, vehicles, sessions, nuuid, ret,
          now, nadv, occupancy, pc, arg, res, ncalls, nstarted,
          locations, conn, nframes, request, routes, self, thread, probe, omcalls,
          events, threads, sockets, inflight, answers, dbsession, writer,
          datagrams>>

\* ------------------------------------------------------------- places.py

\* timedelta(seconds = s), in ticks
timedelta_seconds(s) == s * TicksPerSecond

\* session.query(PlaceOccupancy).filter_by(place_id = p).count()
occupancy_count(occ, p) ==
    BagCardinality([r \in {x \in BagToSet(occ) : x.place_id = p} |-> occ[r]])

\* the rows of one vehicle
vehicle_rows(occ, v) == {x \in BagToSet(occ) : x.vehicle_id = v}

\* session.query(PlaceOccupancy).filter_by(vehicle_id = v).count()
vehicle_row_count(occ, v) ==
    BagCardinality([r \in vehicle_rows(occ, v) |-> occ[r]])

\* get_place_by_id(place_id) is not None
place_exists(p) == p \in DOMAIN Place

\* a mutant: full only above the capacity
is_place_full_strict(occ, p) ==
    IF ~place_exists(p) \/ Place[p].max_capacity = None
    THEN FALSE
    ELSE occupancy_count(occ, p) > Place[p].max_capacity

is_place_full(occ, p) ==
    IF ~place_exists(p) \/ Place[p].max_capacity = None
    THEN FALSE
    ELSE occupancy_count(occ, p) >= Place[p].max_capacity

\* `place.stay_time_seconds or 60`: None and 0 are both falsy
stay_or_default(p) ==
    IF Place[p].stay_time_seconds = None \/ Place[p].stay_time_seconds = 0
    THEN DEFAULT_STAY_SECONDS
    ELSE Place[p].stay_time_seconds

\* a mutant: the pass-through test is left out
try_enter_place_decision_no_passthrough(occ, p) ==
    IF ~place_exists(p) THEN "INVALID_PLACE"
    ELSE IF is_place_full(occ, p) THEN "FULL"
    ELSE "INSERT"

\* try_enter_place up to its insert: the status it returns early, or "INSERT"
try_enter_place_decision(occ, p) ==
    IF ~place_exists(p) THEN "INVALID_PLACE"
    ELSE IF Place[p].pass_through THEN "PASSTHROUGH"
    ELSE IF is_place_full(occ, p) THEN "FULL"
    ELSE "INSERT"

\* PlaceOccupancy(vehicle_id, place_id, leave_after), entered_at defaulting to now
new_occupancy(v, p, t) ==
    [vehicle_id |-> v, place_id |-> p, entered_at |-> t,
     leave_after |-> t + timedelta_seconds(stay_or_default(p))]

\* the calling budget is not used up
MayCall == nstarted < MaxCalls

NoCall == [op |-> "none", place_id |-> "", ok |-> FALSE, status |-> ""]

\* the call begins
Started == nstarted' = nstarted + 1

\* the call returns r to vehicle v
Completed(v, r) ==
    /\ res' = [res EXCEPT ![v] = r]
    /\ ncalls' = [ncalls EXCEPT ![v] = @ + 1]

\* try_enter_place, lines 24-33: the lookups and the capacity check. The three
\* early returns complete the call; otherwise the caller goes on to the insert.
try_enter_place_check(v, p) ==
    /\ pc[v] = "ready"
    /\ MayCall
    /\ Started
    /\ LET d == try_enter_place_decision(occupancy, p) IN
       IF d = "INSERT"
       THEN /\ pc' = [pc EXCEPT ![v] = "insert"]
            /\ arg' = [arg EXCEPT ![v] = p]
            /\ UNCHANGED <<occupancy, res, ncalls>>
       ELSE /\ Completed(v, [op |-> "try_enter", place_id |-> p,
                             ok |-> (d = "PASSTHROUGH"), status |-> d])
            /\ UNCHANGED <<occupancy, pc, arg>>
    /\ UNCHANGED <<clockVars, netVars, sessionVars, wireVars, motionVars>>

\* try_enter_place, lines 35-39: the insert, its commit and the ENTERED return.
try_enter_place_insert(v) ==
    /\ pc[v] = "insert"
    /\ occupancy' = occupancy (+) SetToBag({new_occupancy(v, arg[v], now)})
    /\ pc' = [pc EXCEPT ![v] = "ready"]
    /\ arg' = [arg EXCEPT ![v] = ""]
    /\ Completed(v, [op |-> "try_enter", place_id |-> arg[v],
                     ok |-> TRUE, status |-> "ENTERED"])
    /\ UNCHANGED nstarted
    /\ UNCHANGED <<clockVars, netVars, sessionVars, wireVars, motionVars>>

\* a call of is_place_full by a vehicle (Vehicle.run_route_loop, test_places.py)
is_place_full_call(v, p) ==
    /\ pc[v] = "ready"
    /\ MayCall
    /\ Started
    /\ Completed(v, [op |-> "is_full", place_id |-> p,
                     ok |-> is_place_full(occupancy, p), status |-> ""])
    /\ UNCHANGED <<occupancy, pc, arg>>
    /\ UNCHANGED <<clockVars, netVars, sessionVars, wireVars, motionVars>>

\* the table after remove_vehicle_from_place found row r: r deleted
delete_row(occ, r) == occ (-) SetToBag({r})

\* remove_vehicle_from_place: .first() of the vehicle's rows (the query has no
\* ORDER BY: any one of them), deleted; False when the vehicle has no row.
remove_vehicle_from_place(v) ==
    /\ pc[v] = "ready"
    /\ MayCall
    /\ Started
    /\ IF vehicle_rows(occupancy, v) = {}
       THEN /\ Completed(v, [op |-> "leave", place_id |-> "", ok |-> FALSE, status |-> ""])
            /\ UNCHANGED occupancy
       ELSE \E r \in vehicle_rows(occupancy, v) :
              /\ occupancy' = delete_row(occupancy, r)
              /\ Completed(v, [op |-> "leave", place_id |-> r.place_id,
                               ok |-> TRUE, status |-> ""])
    /\ UNCHANGED <<pc, arg>>
    /\ UNCHANGED <<clockVars, netVars, sessionVars, wireVars, motionVars>>

\* the clock moves on by d ticks (at most limit times in a behaviour)
Advance(d, limit) ==
    /\ nadv < limit
    /\ now' = now + d
    /\ nadv' = nadv + 1
    /\ UNCHANGED <<placeVars, sessionVars, wireVars, motionVars, netVars>>

\* the server's tables before any request
NoOperation == [op |-> "none", vid |-> "", arg |-> "", out |-> << >>]

InitServer ==
    /\ vehicles = << >>
    /\ sessions = << >>
    /\ nuuid = 0
    /\ ret = NoOperation

\* ------------------------------- Database (TransitSystem.py, main.py)

\* timedelta(hours = h), in ticks
timedelta_hours(h) == timedelta_seconds(h * SECONDS_PER_HOUR)

\* int(dt.timestamp()): the whole seconds of an instant
int_timestamp(t) == t \div TicksPerSecond

\* what create_session stores in expires_at: main.py the whole seconds of
\* now + 1 h, TransitSystem.py the datetime itself
stored_expiry(im, t) ==
    IF im = "main"
    THEN int_timestamp(t + timedelta_hours(SESSION_TTL_HOURS))
    ELSE t + timedelta_hours(SESSION_TTL_HOURS)

\* validate_session's comparison: main.py `current_time_ts > expires_at_ts`,
\* TransitSystem.py `datetime.datetime.now() > db_session.expires_at`
past_expiry(im, t, e) ==
    IF im = "main" THEN int_timestamp(t) > e ELSE t > e

\* a mutant: the expiry is tested before the binding
validate_session_expiry_first(im, sess, t, session_id, expected_vehicle_id) ==
    IF im = "main" /\ session_id = "" THEN "SESSION_ID_MISSING"
    ELSE IF session_id \notin DOMAIN sess THEN "INVALID_SESSION"
    ELSE IF past_expiry(im, t, sess[session_id].expires_at) THEN "SESSION_EXPIRED"
    ELSE IF sess[session_id].vehicle_id # expected_vehicle_id THEN "INVALID_SESSION"
    ELSE "VALID"

validate_session(im, sess, t, session_id, expected_vehicle_id) ==
    IF im = "main" /\ session_id = "" THEN "SESSION_ID_MISSING"
    ELSE IF session_id \notin DOMAIN sess THEN "INVALID_SESSION"
    ELSE IF sess[session_id].vehicle_id # expected_vehicle_id THEN "INVALID_SESSION"
    ELSE IF past_expiry(im, t, sess[session_id].expires_at) THEN "SESSION_EXPIRED"
    ELSE "VALID"

\* the row create_session inserts
new_session(im, t, vehicle_id) ==
    [vehicle_id |-> vehicle_id, expires_at |-> stored_expiry(im, t)]

\* a mutant: a new session revokes the vehicle's earlier ones
create_session_revoking(im, sess, t, session_id, vehicle_id) ==
    [x \in {y \in DOMAIN sess : sess[y].vehicle_id # vehicle_id} |-> sess[x]]
        @@ (session_id :> new_session(im, t, vehicle_id))

\* the sessions table after create_session inserted the row of session_id
create_session(im, sess, t, session_id, vehicle_id) ==
    sess @@ (session_id :> new_session(im, t, vehicle_id))

vehicle_exists(veh, vehicle_id) == vehicle_id \in DOMAIN veh

\* main.py: `SELECT EXISTS(SELECT 1 ... WHERE vehicle_id = ? AND
\* vehicle_password = ?)` yields one row, (1,) or (0,), whatever it finds
select_exists(found) == << IF found THEN 1 ELSE 0 >>

\* main.py: `cursor.fetchone() is not None` on that row
vehicle_password_correct(veh, vehicle_id, password) ==
    select_exists(/\ vehicle_id \in DOMAIN veh
                  /\ password # NoPassword
                  /\ veh[vehicle_id].vehicle_password = password) # << >>

\* a mutant: the vehicle is registered MOVING
register_vehicle_moving(im, veh, vehicle_id, password, vehicle_type) ==
    veh @@ (vehicle_id :>
              [vehicle_password |-> IF im = "main" THEN password ELSE NoPassword,
               vehicle_type |-> vehicle_type,
               status |-> "MOVING"])

\* the vehicles table after register_vehicle; TransitSystem.py's table has
\* no password column
register_vehicle(im, veh, vehicle_id, password, vehicle_type) ==
    veh @@ (vehicle_id :>
              [vehicle_password |-> IF im = "main" THEN password ELSE NoPassword,
               vehicle_type |-> vehicle_type,
               status |-> "IDLE"])

\* send_response(*args): the "/"-joined fields of the message
Returned(op, vid, a, out) ==
    ret' = [op |-> op, vid |-> vid, arg |-> a, out |-> out]

\* a mutant: the exception of VehicleType(self.vid[0]) is not caught and ends
\* the connection's handler
RegisterCommand_execute_uncaught(vid, password) ==
    /\ nuuid < MaxSessions
    /\ IF FirstChar[vid] \notin VehicleType
       THEN /\ Returned("REGISTER", vid, password, << >>)
            /\ conn' = "closed"
            /\ UNCHANGED <<vehicles, sessions, nuuid>>
       ELSE IF vehicle_exists(vehicles, vid)
       THEN /\ Returned("REGISTER", vid, password, <<"EXISTS">>)
            /\ UNCHANGED <<vehicles, sessions, nuuid, conn>>
       ELSE /\ vehicles' = register_vehicle(impl, vehicles, vid, password, FirstChar[vid])
            /\ sessions' = create_session(impl, sessions, now, Uuid[nuuid + 1], vid)
            /\ nuuid' = nuuid + 1
            /\ Returned("REGISTER", vid, password, <<vid, Uuid[nuuid + 1]>>)
            /\ UNCHANGED conn
    /\ UNCHANGED <<impl, clockVars, netVars, placeVars, locations, motionVars>>

\* RegisterCommand._execute under Command.execute: VehicleType(self.vid[0])
\* raises for an unknown tag, which execute answers with the internal error.
RegisterCommand_execute(vid, password) ==
    /\ nuuid < MaxSessions
    /\ IF FirstChar[vid] \notin VehicleType
       THEN /\ Returned("REGISTER", vid, password, <<"ERROR:Internal server error">>)
            /\ UNCHANGED <<vehicles, sessions, nuuid>>
       ELSE IF vehicle_exists(vehicles, vid)
       THEN /\ Returned("REGISTER", vid, password, <<"EXISTS">>)
            /\ UNCHANGED <<vehicles, sessions, nuuid>>
       ELSE /\ vehicles' = register_vehicle(impl, vehicles, vid, password, FirstChar[vid])
            /\ sessions' = create_session(impl, sessions, now, Uuid[nuuid + 1], vid)
            /\ nuuid' = nuuid + 1
            /\ Returned("REGISTER", vid, password, <<vid, Uuid[nuuid + 1]>>)
    /\ UNCHANGED <<impl, clockVars, netVars, placeVars, locations, conn, motionVars>>

\* LoginCommand._execute; only main.py checks a password
LoginCommand_execute(vid, password) ==
    /\ nuuid < MaxSessions
    /\ IF ~vehicle_exists(vehicles, vid)
       THEN /\ Returned("LOGIN", vid, password,
                        <<"UNREGISTERED", "Please register your vehicle">>)
            /\ UNCHANGED <<sessions, nuuid>>
       ELSE IF impl = "main" /\ ~vehicle_password_correct(vehicles, vid, password)
       THEN /\ Returned("LOGIN", vid, password,
                        <<"INVALID", "Invalid vehicle id or password">>)
            /\ UNCHANGED <<sessions, nuuid>>
       ELSE /\ sessions' = create_session(impl, sessions, now, Uuid[nuuid + 1], vid)
            /\ nuuid' = nuuid + 1
            /\ Returned("LOGIN", vid, password, <<vid, Uuid[nuuid + 1]>>)
    /\ UNCHANGED <<impl, vehicles, clockVars, netVars, placeVars, locations, conn, motionVars>>

\* a call of validate_session (SessionCommand._validate_args makes it)
validate_session_call(session_id, vid) ==
    /\ session_id \in TokenInputs(nuuid)
    /\ Returned("validate_session", vid, session_id,
                <<validate_session(impl, sessions, now, session_id, vid)>>)
    /\ UNCHANGED <<impl, vehicles, sessions, nuuid, clockVars, netVars, placeVars, locations, conn, motionVars>>

\* ------------------------------------------------------ the locations table

\* a mutant: the table keeps the latest position of each vehicle only
record_location_latest(loc, vehicle_id, longitude, latitude) ==
    Append(SelectSeq(loc, LAMBDA row : row.vehicle_id # vehicle_id),
           [vehicle_id |-> vehicle_id, longitude |-> longitude,
            latitude |-> latitude])

\* the table after record_location inserted and committed its row
record_location(loc, vehicle_id, longitude, latitude) ==
    Append(loc, [vehicle_id |-> vehicle_id, longitude |-> longitude,
                 latitude |-> latitude])

\* the coordinates position reports carry
Latitudes == {40, 900}
Longitudes == {-30}

\* TransitSystem._handle_udp_location on a datagram "<vehicle_id>/<lon>/<lat>"
\* with numeric fields: the row is recorded, nothing is answered
handle_udp_location(vid, longitude, latitude) ==
    /\ impl = "TransitSystem"
    /\ Len(locations) < MaxLocations
    /\ locations' = record_location(locations, vid, longitude, latitude)
    /\ UNCHANGED <<conn, nframes, request>>
    /\ UNCHANGED <<clockVars, netVars, sessionVars, placeVars, motionVars>>

\* ------------------------------------------------------------- Vehicle.py

\* latitudes and longitudes are in units of 0.000001 degrees, the precision
\* of the "{:.6f}" fields the vehicle reports

\* 0.0001 degrees, the box of is_position_occupied
TOLERANCE == 100
\* 0.00005 degrees, the arrival distance
ARRIVAL_EPSILON == 50
\* `* 0.1`, the fraction of the remaining way one step covers
STEP_DIVISOR == 10

\* the vehicle process that is followed, and the other vehicles
SelfId == "B101"
Bystander == "B102"

\* where the places are
PlacePosition ==
    [P1 |-> [latitude |-> 400, longitude |-> -300],
     P2 |-> [latitude |-> 0, longitude |-> 40],
     P3 |-> [latitude |-> 30, longitude |-> 30],
     P4 |-> [latitude |-> -200, longitude |-> 100]]

\* the route rows a vehicle may have been given, ordered by step_index
RouteTables == {<< >>, <<"P1">>, <<"P2", "P3">>, <<"P9">>, <<"P3", "P1">>}

\* the session the vehicle holds after register(): a token, or none
NoSession == ""
SessionsHeld == {NoSession, "t1"}

\* a mutant: the vehicle is constructed MOVING
Vehicle_init_moving(id, session) ==
    [id |-> id, session |-> session, is_running |-> FALSE, route |-> << >>,
     current_index |-> 0, state |-> "MOVING", lat |-> 0, lon |-> 0,
     delayed |-> FALSE]

\* Vehicle.__init__, and the session register() obtained
Vehicle_init(id, session) ==
    [id |-> id, session |-> session, is_running |-> FALSE, route |-> << >>,
     current_index |-> 0, state |-> "IDLE", lat |-> 0, lon |-> 0,
     delayed |-> FALSE]

\* load_route_from_db: the vehicle's place ids, ordered by step_index
load_route_from_db(rt, id) == rt[id]

abs(x) == IF x < 0 THEN -x ELSE x

\* what the names in is_position_occupied are bound to in Vehicle.py: line 6
\* imports get_db_session and Routes, line 17 binds Vehicle to the class of
\* this module, which shadows nothing because Database.Vehicle is not imported
VehicleModuleGlobals ==
    [get_db_session |-> "Database.get_db_session",
     Routes |-> "Database.Routes",
     Vehicle |-> "Vehicle.Vehicle"]

\* the classes Database.py maps to tables
MappedClasses ==
    {"Database.Vehicle", "Database.Session", "Database.Location",
     "Database.Place", "Database.PlaceOccupancy", "Database.Routes"}

\* the position columns of the vehicles table: register_vehicle and the
\* launch scripts leave them NULL and no code writes them
vehicle_positions(veh) ==
    {[vehicle_id |-> v, latitude |-> None, longitude |-> None] : v \in DOMAIN veh}

\* the filter of is_position_occupied on one row; a NULL column compares NULL
within_tolerance(row, lat, lon) ==
    /\ row.latitude # None
    /\ row.longitude # None
    /\ abs(row.latitude - lat) < TOLERANCE
    /\ abs(row.longitude - lon) < TOLERANCE

\* is_position_occupied: session.query(Vehicle) with the filter on
\* Vehicle.vehicle_id, Vehicle.latitude and Vehicle.longitude. Vehicle is the
\* class of Vehicle.py, not a mapped class, so the query raises.
is_position_occupied(veh, id, lat, lon) ==
    IF VehicleModuleGlobals.Vehicle \notin MappedClasses
    THEN "raise"
    ELSE IF \E row \in vehicle_positions(veh) :
              row.vehicle_id # id /\ within_tolerance(row, lat, lon)
    THEN "True"
    ELSE "False"

\* one step toward a coordinate: x + (target - x) * 0.1
step_toward(x, target) == x + ((target - x) \div STEP_DIVISOR)

\* euclidean_dist(...) < 0.00005
arrived(lat, lon, place) ==
    (lat - place.latitude) * (lat - place.latitude)
      + (lon - place.longitude) * (lon - place.longitude)
    < ARRIVAL_EPSILON * ARRIVAL_EPSILON

\* the place the route makes the vehicle go to next
next_place_id(s) == s.route[s.current_index + 1]

\* lines 395-403 and 410-418: the index moves on, FINISHED at the route's end
advance_route(s) ==
    LET i == s.current_index + 1 IN
    [s EXCEPT !.current_index = i,
              !.state = IF i >= Len(s.route) THEN "FINISHED" ELSE "IDLE"]

\* the tables after remove_vehicle_from_place(id), one per row it may delete
tables_after_leave(occ, id) ==
    IF vehicle_rows(occ, id) = {} THEN {occ}
    ELSE {delete_row(occ, r) : r \in vehicle_rows(occ, id)}

\* a call of places.py by the loop
Called(name, p) ==
    [kind |-> name, place |-> p, lat |-> 0, lon |-> 0, state |-> ""]

\* update_server_status: with a session, the vehicle sends
\* UPDATE_LOCATION/<session>/<lat>/<lon>/<state>; without one, nothing
update_server_status(s) ==
    IF s.session # NoSession
    THEN << [kind |-> "UPDATE_LOCATION", place |-> "", lat |-> s.lat,
             lon |-> s.lon, state |-> s.state] >>
    ELSE << >>

\* what one pass of the loop leaves behind
Outcome(s, th, occ, n, pr, ev) ==
    [self |-> s, thread |-> th, occupancy |-> occ, omcalls |-> n, probe |-> pr,
     events |-> ev]

\* the state is assigned and reported
transition(s, st) == [s EXCEPT !.state = st]

\* a mutant: a place that is not found makes the vehicle go back one step
idle_branch_rewinding(s, occ, n, pr, ev) ==
    LET p == next_place_id(s) IN
    IF ~place_exists(p)
    THEN {Outcome([s EXCEPT !.state = "IDLE", !.current_index = @ - 1],
                  "looping", occ, n, pr, ev)}
    ELSE IF ~Place[p].pass_through /\ is_place_full(occ, p)
    THEN {Outcome(transition(s, "DELAYED"), "looping", occ, n + 1, pr,
                  ev \o <<Called("is_place_full", p)>>
                     \o update_server_status(transition(s, "DELAYED")))}
    ELSE {Outcome(transition(s, "MOVING"), "looping", occ,
                  IF Place[p].pass_through THEN n ELSE n + 1, pr,
                  ev \o (IF Place[p].pass_through THEN << >>
                         ELSE <<Called("is_place_full", p)>>)
                     \o update_server_status(transition(s, "MOVING")))}

\* a mutant: the IDLE branch steps over a place that is not in the table
idle_branch_skipping(s, occ, n, pr, ev) ==
    LET p == next_place_id(s) IN
    IF ~place_exists(p)
    THEN {Outcome([s EXCEPT !.state = "IDLE", !.current_index = @ + 1],
                  "looping", occ, n, pr, ev)}
    ELSE IF ~Place[p].pass_through /\ is_place_full(occ, p)
    THEN {Outcome(transition(s, "DELAYED"), "looping", occ, n + 1, pr,
                  ev \o <<Called("is_place_full", p)>>
                     \o update_server_status(transition(s, "DELAYED")))}
    ELSE {Outcome(transition(s, "MOVING"), "looping", occ,
                  IF Place[p].pass_through THEN n ELSE n + 1, pr,
                  ev \o (IF Place[p].pass_through THEN << >>
                         ELSE <<Called("is_place_full", p)>>)
                     \o update_server_status(transition(s, "MOVING")))}

\* a mutant: the IDLE branch reserves its place when it sets out
idle_branch_reserving(s, occ, n, pr, ev) ==
    LET p == next_place_id(s) IN
    IF ~place_exists(p)
    THEN {Outcome(transition(s, "IDLE"), "looping", occ, n, pr, ev)}
    ELSE IF ~Place[p].pass_through /\ is_place_full(occ, p)
    THEN {Outcome(transition(s, "DELAYED"), "looping", occ, n + 1, pr,
                  ev \o <<Called("is_place_full", p)>>
                     \o update_server_status(transition(s, "DELAYED")))}
    ELSE {Outcome(transition(s, "MOVING"), "looping",
                  occ (+) SetToBag({new_occupancy(s.id, p, 0)}),
                  IF Place[p].pass_through THEN n ELSE n + 1, pr,
                  ev \o (IF Place[p].pass_through THEN << >>
                         ELSE <<Called("is_place_full", p)>>)
                     \o update_server_status(transition(s, "MOVING")))}

\* a mutant: the IDLE branch reports nothing
idle_branch_silent(s, occ, n, pr, ev) ==
    LET p == next_place_id(s) IN
    IF ~place_exists(p)
    THEN {Outcome(transition(s, "IDLE"), "looping", occ, n, pr, ev)}
    ELSE IF ~Place[p].pass_through /\ is_place_full(occ, p)
    THEN {Outcome(transition(s, "DELAYED"), "looping", occ, n + 1, pr,
                  ev \o <<Called("is_place_full", p)>>)}
    ELSE {Outcome(transition(s, "MOVING"), "looping", occ,
                  IF Place[p].pass_through THEN n ELSE n + 1, pr,
                  ev \o (IF Place[p].pass_through THEN << >>
                         ELSE <<Called("is_place_full", p)>>))}

\* a mutant: the capacity check is made of pass-through places too
idle_branch_checking_passthrough(s, occ, n, pr, ev) ==
    LET p == next_place_id(s) IN
    IF ~place_exists(p)
    THEN {Outcome(transition(s, "IDLE"), "looping", occ, n, pr, ev)}
    ELSE IF is_place_full(occ, p)
    THEN {Outcome(transition(s, "DELAYED"), "looping", occ, n + 1, pr,
                  ev \o <<Called("is_place_full", p)>>
                     \o update_server_status(transition(s, "DELAYED")))}
    ELSE {Outcome(transition(s, "MOVING"), "looping", occ, n + 1, pr,
                  ev \o <<Called("is_place_full", p)>>
                     \o update_server_status(transition(s, "MOVING")))}

\* lines 335-353, the IDLE branch: `not next_place.pass_through and
\* is_place_full(next_place_id)` calls is_place_full only of a place that is
\* not pass-through
idle_branch(s, occ, n, pr, ev) ==
    LET p == next_place_id(s) IN
    IF ~place_exists(p)
    THEN {Outcome(transition(s, "IDLE"), "looping", occ, n, pr, ev)}
    ELSE IF ~Place[p].pass_through /\ is_place_full(occ, p)
    THEN {Outcome(transition(s, "DELAYED"), "looping", occ, n + 1, pr,
                  ev \o <<Called("is_place_full", p)>>
                     \o update_server_status(transition(s, "DELAYED")))}
    ELSE {Outcome(transition(s, "MOVING"), "looping", occ,
                  IF Place[p].pass_through THEN n ELSE n + 1, pr,
                  ev \o (IF Place[p].pass_through THEN << >>
                         ELSE <<Called("is_place_full", p)>>)
                     \o update_server_status(transition(s, "MOVING")))}

\* lines 386-427: the arrival, with the vehicle at its new position
arrival(s, occ, t, n, pr, ev) ==
    LET p == next_place_id(s)
        d == try_enter_place_decision(occ, p)
        entered == IF d = "INSERT"
                   THEN occ (+) SetToBag({new_occupancy(s.id, p, t)})
                   ELSE occ
        tried == ev \o <<Called("try_enter_place", p)>>
    IN
    IF ~arrived(s.lat, s.lon, PlacePosition[p])
    THEN {Outcome(s, "looping", occ, n, pr, ev)}
    ELSE IF d \in {"INSERT", "PASSTHROUGH"}
    THEN IF Place[p].pass_through
         THEN {Outcome(advance_route(s),
                       IF advance_route(s).state = "FINISHED"
                       THEN "returned" ELSE "looping",
                       o, n + 2, pr,
                       tried \o <<Called("remove_vehicle_from_place", "")>>
                             \o update_server_status(advance_route(s)))
                 : o \in tables_after_leave(entered, s.id)}
         ELSE {Outcome(transition(s, "WAITING"), "waiting", entered, n + 1, pr,
                       tried \o update_server_status(transition(s, "WAITING")))}
    ELSE {Outcome([s EXCEPT !.state = "DELAYED", !.delayed = TRUE],
                  "penalty", occ, n + 1, pr,
                  tried \o update_server_status(transition(s, "DELAYED")))}

\* lines 355-380, the MOVING branch up to the report of the new position
moving_branch(s, occ, veh, t, n, pr, ev) ==
    LET p == next_place_id(s) IN
    IF ~place_exists(p)
    THEN {Outcome(transition(s, "IDLE"), "looping", occ, n, pr, ev)}
    ELSE
    LET new_lat == step_toward(s.lat, PlacePosition[p].latitude)
        new_lon == step_toward(s.lon, PlacePosition[p].longitude)
        blocked == is_position_occupied(veh, s.id, new_lat, new_lon)
        asked == [lat |-> new_lat, lon |-> new_lon, result |-> blocked]
        moved == [s EXCEPT !.lat = new_lat, !.lon = new_lon]
    IN
    IF blocked = "raise"
    THEN {Outcome(s, "raised", occ, n, asked, ev)}
    ELSE IF blocked = "True"
    THEN {Outcome(transition(s, "DELAYED"), "looping", occ, n, asked,
                  ev \o update_server_status(transition(s, "DELAYED")))}
    ELSE arrival(moved, occ, t, n, asked, ev \o update_server_status(moved))

\* lines 407-418: the stay is over
waiting_branch(s, occ, n, pr, ev) ==
    {Outcome(advance_route(s),
             IF advance_route(s).state = "FINISHED" THEN "returned" ELSE "looping",
             o, n + 1, pr,
             ev \o <<Called("remove_vehicle_from_place", "")>>
                \o update_server_status(advance_route(s)))
       : o \in tables_after_leave(occ, s.id)}

\* lines 424-427: the penalty is over
penalty_branch(s, occ, n, pr, ev) ==
    {Outcome([s EXCEPT !.state = "MOVING", !.delayed = FALSE], "looping", occ, n, pr,
             ev \o update_server_status(transition(s, "MOVING")))}

NoProbe == [lat |-> 0, lon |-> 0, result |-> "none"]

\* run, lines 166-179: no session closes the vehicle, no route leaves it
\* idle, otherwise the loop's thread is started
run ==
    /\ thread = "constructed"
    /\ IF self.session = NoSession
       THEN /\ thread' = "closed"
            /\ UNCHANGED self
       ELSE LET r == load_route_from_db(routes, self.id) IN
            /\ self' = [self EXCEPT !.route = r]
            /\ thread' = IF r = << >> THEN "idle" ELSE "looping"
    /\ UNCHANGED <<routes, probe, omcalls, events>>
    /\ UNCHANGED <<clockVars, netVars, sessionVars, placeVars, wireVars>>

\* run, line 181, which the started thread may overtake
run_set_is_running ==
    /\ thread \in {"looping", "raised", "returned", "waiting", "penalty"}
    /\ ~self.is_running
    /\ self' = [self EXCEPT !.is_running = TRUE]
    /\ UNCHANGED <<routes, thread, probe, omcalls, events>>
    /\ UNCHANGED <<clockVars, netVars, sessionVars, placeVars, wireVars>>

\* one pass of run_route_loop's while loop, or what follows a sleep inside it
run_route_loop ==
    /\ thread \in {"looping", "waiting", "penalty"}
    /\ \E o \in
          IF thread = "waiting"
          THEN waiting_branch(self, occupancy, omcalls, probe, events)
          ELSE IF thread = "penalty"
          THEN penalty_branch(self, occupancy, omcalls, probe, events)
          ELSE IF ~self.is_running
          THEN {Outcome(self, "returned", occupancy, omcalls, probe, events)}
          ELSE IF self.state = "IDLE" /\ self.route # << >>
          THEN idle_branch(self, occupancy, omcalls, probe, events)
          ELSE IF self.state = "MOVING"
          THEN moving_branch(self, occupancy, vehicles, now, omcalls, probe, events)
          ELSE {Outcome(self, "looping", occupancy, omcalls, probe, events)} :
          /\ self' = o.self
          /\ thread' = o.thread
          /\ occupancy' = o.occupancy
          /\ omcalls' = o.omcalls
          /\ probe' = o.probe
          /\ events' = o.events
    /\ UNCHANGED <<routes, pc, arg, res, ncalls, nstarted>>
    /\ UNCHANGED <<clockVars, netVars, sessionVars, wireVars>>

InitWire ==
    /\ locations = << >>
    /\ conn = "open"
    /\ nframes = 0
    /\ request = << >>

\* the connections clients make
Connections == {"c1", "c2"}

\* a handler that has read no message yet
Receiving == [pc |-> "recv", vid |-> "", token |-> "", n |-> 0]

\* a SQLAlchemy session with nothing pending, in a usable transaction
CleanSession == [new |-> {}, dirty |-> {}, state |-> "ACTIVE"]

\* no sqlite connection is inside a transaction
NoWriter == "none"

\* start(): the listener thread (TransitSystem.py only) and the accept loop
\* run; no connection is accepted yet
InitNet ==
    /\ threads = [t \in Connections \cup {"accept", "udp"} |->
                    IF t \in Connections \/ (t = "udp" /\ impl = "main")
                    THEN "none" ELSE "running"]
    /\ sockets = [c \in Connections |-> "ok"]
    /\ inflight = [c \in Connections |-> Receiving]
    /\ answers = [c \in Connections |-> << >>]
    /\ dbsession = CleanSession
    /\ writer = NoWriter
    /\ datagrams = << >>

\* no vehicle process
InitNoVehicle ==
    /\ routes = [v \in VehicleIds |-> << >>]
    /\ self = Vehicle_init(SelfId, NoSession)
    /\ thread = "constructed"
    /\ probe = NoProbe
    /\ omcalls = 0
    /\ events = << >>

\* the steps the clock makes: a tick, and the lifetime of a session
ClockSteps == {1, timedelta_hours(SESSION_TTL_HOURS)}

InitSession ==
    /\ impl \in Impls
    /\ InitServer
    /\ now = 0
    /\ nadv = 0
    /\ occupancy = EmptyBag
    /\ pc = [v \in VehicleIds |-> "ready"]
    /\ arg = [v \in VehicleIds |-> ""]
    /\ res = [v \in VehicleIds |-> NoCall]
    /\ ncalls = [v \in VehicleIds |-> 0]
    /\ nstarted = 0
    /\ InitWire
    /\ InitNet
    /\ InitNoVehicle

NextSession ==
    \/ /\ \E vid \in ClientIds, pw \in RegisterPasswords : RegisterCommand_execute(vid, pw)
       /\ UNCHANGED <<nframes, request>>
    \/ /\ \E vid \in ClientIds, pw \in LoginPasswords : LoginCommand_execute(vid, pw)
       /\ UNCHANGED <<nframes, request>>
    \/ /\ \E t \in AllTokenInputs, vid \in TaggedIds : validate_session_call(t, vid)
       /\ UNCHANGED <<nframes, request>>
    \/ \E d \in ClockSteps : Advance(d, MaxAdvance)

SpecSession == InitSession /\ [][NextSession]_vars

InitPlaces ==
    /\ impl = "TransitSystem"
    /\ InitServer
    /\ now = 0
    /\ nadv = 0
    /\ occupancy = EmptyBag
    /\ pc = [v \in VehicleIds |-> "ready"]
    /\ arg = [v \in VehicleIds |-> ""]
    /\ res = [v \in VehicleIds |-> NoCall]
    /\ ncalls = [v \in VehicleIds |-> 0]
    /\ nstarted = 0
    /\ InitWire
    /\ InitNet
    /\ InitNoVehicle

NextPlaces ==
    \/ \E v \in VehicleIds, p \in PlaceIds : try_enter_place_check(v, p)
    \/ \E v \in VehicleIds : try_enter_place_insert(v)
    \/ \E v \in VehicleIds, p \in PlaceIds : is_place_full_call(v, p)
    \/ \E v \in VehicleIds : remove_vehicle_from_place(v)
    \/ Advance(1, MaxPlaceAdvance)

SpecPlaces == InitPlaces /\ [][NextPlaces]_vars

\* ------------------------------- the dispatcher (TransitSystem.py, main.py)

\* Command.COMMANDS: the classes that registered themselves under a name.
\* TransitSystem.py has no subclass of SessionCommand.
COMMANDS(im) ==
    IF im = "main"
    THEN {"REGISTER", "LOGIN", "UPDATE_LOCATION"}
    ELSE {"REGISTER", "LOGIN"}

\* str.upper() on the command names that are sent
UpperCase == [login |-> "LOGIN", status |-> "STATUS"]
upper(name) == IF name \in DOMAIN UpperCase THEN UpperCase[name] ELSE name

\* float(field): the number a field denotes, in units of 0.000001; the
\* fields that denote none raise ValueError
FloatValue == [f40 |-> 40, fm30 |-> -30]
NumericFields == DOMAIN FloatValue
float(field) == FloatValue[field]
ValueError(field) == field \notin NumericFields

\* `self.args[0] if len(self.args)>0 else None`
password_arg(args) == IF Len(args) > 0 THEN args[1] ELSE NoPassword

\* list[1:]
tail_args(args) == SubSeq(args, 2, Len(args))

\* handle_command answers a frame it does not dispatch. TransitSystem.py
\* sends the encoded message and returns. main.py passes sendall a str: the
\* TypeError leaves handle_command and handle_client's loop, whose finally
\* clause closes the connection; nothing was sent.
reject(op, vid, a, message) ==
    /\ IF impl = "main"
       THEN /\ conn' = "closed"
            /\ Returned(op, vid, a, << >>)
       ELSE /\ conn' = conn
            /\ Returned(op, vid, a, <<"ERROR", message>>)
    /\ UNCHANGED <<impl, vehicles, sessions, nuuid, locations>>
    /\ UNCHANGED <<clockVars, netVars, placeVars, motionVars>>

\* the clock passes the lifetime of a session
SessionLifetime == timedelta_hours(SESSION_TTL_HOURS) + TicksPerSecond

\* a mutant: the handler runs whatever the validation says
UpdateLocationCommand_result_ungated(im, sess, t, vid, args) ==
    IF Len(args) < 1
    THEN [out |-> << >>, record |-> FALSE]
    ELSE
    LET rest == tail_args(args) IN
    IF Len(rest) # 2
    THEN [out |-> <<"ERROR", "Internal argument processing error">>, record |-> FALSE]
    ELSE IF ValueError(rest[1]) \/ ValueError(rest[2])
    THEN [out |-> <<"ERROR", "Invalid location format. Longitude", "Latitude must be numbers.">>,
          record |-> FALSE]
    ELSE [out |-> <<"OK", "Location Updated">>, record |-> TRUE]

\* what UPDATE_LOCATION answers, and whether it records the location:
\* Command._validate_args with ARGS_MIN = 1 (UpdateLocationCommand declares
\* EXPECTED_ARGS_COUNT, which nothing reads), SessionCommand._validate_args,
\* then UpdateLocationCommand._execute
UpdateLocationCommand_result(im, sess, t, vid, args) ==
    IF Len(args) < 1
    THEN [out |-> << >>, record |-> FALSE]
    ELSE
    LET validation_message == validate_session(im, sess, t, args[1], vid)
        rest == tail_args(args)
    IN
    IF validation_message # "VALID"
    THEN [out |-> <<"ERROR", validation_message>>, record |-> FALSE]
    ELSE IF Len(rest) < 1
    THEN [out |-> <<"ERROR: UPDATE_LOCATION requires at least 1 arguments after session ID, got 0.">>,
          record |-> FALSE]
    ELSE IF Len(rest) # 2
    THEN [out |-> <<"ERROR", "Internal argument processing error">>, record |-> FALSE]
    ELSE IF ValueError(rest[1]) \/ ValueError(rest[2])
    THEN [out |-> <<"ERROR", "Invalid location format. Longitude", "Latitude must be numbers.">>,
          record |-> FALSE]
    ELSE [out |-> <<"OK", "Location Updated">>, record |-> TRUE]

\* UpdateLocationCommand under Command.execute (main.py)
UpdateLocationCommand_execute(vid, args) ==
    /\ Len(args) > 0 => args[1] \in TokenInputs(nuuid)
    /\ LET r == UpdateLocationCommand_result(impl, sessions, now, vid, args) IN
       /\ Returned("UPDATE_LOCATION", vid, IF Len(args) > 0 THEN args[1] ELSE "", r.out)
       /\ IF r.record
          THEN /\ Len(locations) < MaxLocations
               /\ locations' = record_location(locations, vid,
                                               float(args[2]), float(args[3]))
          ELSE locations' = locations
    /\ UNCHANGED <<impl, vehicles, sessions, nuuid, conn>>
    /\ UNCHANGED <<clockVars, netVars, placeVars, motionVars>>

\* handle_command on the fields of one message of an open connection
handle_command(frame) ==
    /\ conn = "open"
    /\ nframes < MaxFrames
    /\ nframes' = nframes + 1
    /\ request' = frame
    /\ IF Len(frame) < 2
       THEN reject("", frame[1], "", "Invalid format")
       ELSE LET vid == frame[1]
                cmd_name == upper(frame[2])
                args == SubSeq(frame, 3, Len(frame))
            IN
            IF cmd_name \notin COMMANDS(impl)
            THEN reject(cmd_name, vid, "", "Invalid command: ")
            ELSE IF cmd_name = "REGISTER"
            THEN RegisterCommand_execute(vid, password_arg(args))
            ELSE IF cmd_name = "LOGIN"
            THEN LoginCommand_execute(vid, password_arg(args))
            ELSE UpdateLocationCommand_execute(vid, args)

\* the tokens the messages carry
ServerTokenInputs == TokenInputs(MaxFrames)

\* the argument lists of the UPDATE_LOCATION messages
LocationArgs ==
    {<< >>}
    \cup {<<t>> : t \in ServerTokenInputs}
    \cup {<<t, "f40">> : t \in ServerTokenInputs}
    \cup {<<t, a, "fm30">> : t \in ServerTokenInputs, a \in {"f40", "north"}}
    \cup {<<t, "f40", "east">> : t \in ServerTokenInputs}
    \cup {<<t, a, "fm30", "MOVING">> : t \in ServerTokenInputs, a \in {"f40", "north"}}

\* the messages clients send, split at "/"
Frames ==
    {<<vid>> : vid \in {"B101", ""}}
    \cup {<<vid, c>> : vid \in ClientIds, c \in {"REGISTER", "LOGIN", "login", "status"}}
    \cup {<<vid, "REGISTER", pw>> : vid \in ClientIds, pw \in RegisterPasswords \ {NoPassword}}
    \cup {<<vid, "LOGIN", pw>> : vid \in ClientIds, pw \in LoginPasswords \ {NoPassword}}
    \cup {<<vid, "UPDATE_LOCATION">> \o a : vid \in TaggedIds, a \in LocationArgs}

\* ---------------------------------------------- the UDP listener's datagrams

\* a datagram is the list its text splits into at "/"; the fields are ids,
\* numerals and text that float() refuses (the empty field is one)
Datagrams ==
    {<<"B101", "fm30", "f40">>, <<"X900", "f40", "f40">>,
     <<"", "f40", "fm30">>, <<"B101", "abc", "f40">>,
     <<"B101", "f40", "">>, <<"B101", "f40">>, <<"hello">>,
     <<"B101", "fm30", "f40", "f40">>}

\* a mutant: the coordinates are stored in the order of Vehicle.py's report
\* (latitude first) instead of the datagram's
udp_recvfrom_latitude_first(parts) ==
    /\ impl = "TransitSystem"
    /\ threads["udp"] = "running"
    /\ Len(datagrams) < MaxDatagrams
    /\ datagrams' = Append(datagrams, parts)
    /\ IF Len(parts) = 3 /\ ~ValueError(parts[2]) /\ ~ValueError(parts[3])
       THEN locations' = record_location(locations, parts[1],
                                         float(parts[3]), float(parts[2]))
       ELSE UNCHANGED locations
    /\ UNCHANGED <<threads, sockets, inflight, answers, dbsession, writer>>
    /\ UNCHANGED <<conn, nframes, request>>
    /\ UNCHANGED <<clockVars, sessionVars, placeVars, motionVars>>

\* one pass of TransitSystem._handle_udp_location's loop: recvfrom returns a
\* datagram, split('/') gives its parts; three parts whose second and third
\* float() accepts are recorded, a ValueError or another number of parts is
\* logged; nothing is sent and the loop goes on
udp_recvfrom(parts) ==
    /\ impl = "TransitSystem"
    /\ threads["udp"] = "running"
    /\ Len(datagrams) < MaxDatagrams
    /\ datagrams' = Append(datagrams, parts)
    /\ IF Len(parts) = 3
       THEN IF ValueError(parts[2]) \/ ValueError(parts[3])
            THEN UNCHANGED locations
            ELSE locations' = record_location(locations, parts[1],
                                              float(parts[2]), float(parts[3]))
       ELSE UNCHANGED locations
    /\ UNCHANGED <<threads, sockets, inflight, answers, dbsession, writer>>
    /\ UNCHANGED <<conn, nframes, request>>
    /\ UNCHANGED <<clockVars, sessionVars, placeVars, motionVars>>

InitServerSpec ==
    /\ impl \in Impls
    /\ InitServer
    /\ now = 0
    /\ nadv = 0
    /\ occupancy = EmptyBag
    /\ pc = [v \in VehicleIds |-> "ready"]
    /\ arg = [v \in VehicleIds |-> ""]
    /\ res = [v \in VehicleIds |-> NoCall]
    /\ ncalls = [v \in VehicleIds |-> 0]
    /\ nstarted = 0
    /\ InitWire
    /\ InitNet
    /\ InitNoVehicle

NextServer ==
    \/ \E frame \in Frames : handle_command(frame)
    \/ Advance(SessionLifetime, MaxServerAdvance)

SpecServer == InitServerSpec /\ [][NextServer]_vars

\* one vehicle's messages and beacons: what a server receives from B101 over
\* TCP and, in TransitSystem.py, over UDP
HistoryFrames ==
    {frame \in Frames : frame[1] = "B101" /\ Len(frame) \in {1, 2, 3, 5}}
HistoryDatagrams ==
    {<<"B101", "f40", "fm30">>, <<"B101", "fm30", "f40">>, <<"B101", "f40">>}

NextHistory ==
    \/ \E frame \in HistoryFrames : handle_command(frame)
    \/ Advance(SessionLifetime, MaxServerAdvance)
    \/ \E parts \in HistoryDatagrams : udp_recvfrom(parts)

SpecHistory == InitServerSpec /\ [][NextHistory]_vars

\* TransitSystem.py with its listener thread reading datagrams
InitListener ==
    /\ InitServerSpec
    /\ impl = "TransitSystem"

NextListener ==
    \E parts \in Datagrams : udp_recvfrom(parts)

SpecListener == InitListener /\ [][NextListener]_vars

\* ------------------------------------------- connections served in parallel

\* the ids the REGISTER messages of the parallel connections carry
RegisterIds == {"B101", "U103"}

\* an object given to Session.add and not yet flushed
Pending(c, table, key, row) ==
    [owner |-> c, table |-> table, key |-> key, row |-> row]

rows_of(objects, table) == {r \in objects : r.table = table}
keys_of(objects, table) == {r.key : r \in rows_of(objects, table)}

\* a table without the rows of some keys, and with some rows more
without(f, keys) ==
    IF DOMAIN f \subseteq keys THEN << >>
    ELSE [k \in DOMAIN f \ keys |-> f[k]]

with(f, rows) ==
    IF rows = {} THEN f
    ELSE f @@ [k \in {r.key : r \in rows} |->
                 (CHOOSE r \in rows : r.key = k).row]

\* vehicle_id is the primary key of vehicles: the INSERTs of a flush fail when
\* a pending vehicle has the id of a row or of another pending vehicle
IntegrityError(db, veh) ==
    \E r \in rows_of(db.new, "vehicles") :
        \/ r.key \in DOMAIN veh
        \/ \E q \in rows_of(db.new, "vehicles") : q # r /\ q.key = r.key

\* Session.flush, which a query and commit() run first: every pending object
\* of the session is inserted, whichever thread added it. A failing INSERT
\* rolls the transaction back, expunges the pending objects and leaves the
\* session unusable until rollback() is called.
Session_flush(db, veh, sess) ==
    IF db.state = "DEACTIVE"
    THEN [raised |-> TRUE, db |-> db, vehicles |-> veh, sessions |-> sess]
    ELSE IF IntegrityError(db, veh)
    THEN [raised |-> TRUE,
          db |-> [new |-> {}, dirty |-> {}, state |-> "DEACTIVE"],
          vehicles |-> without(veh, keys_of(db.dirty, "vehicles")),
          sessions |-> without(sess, keys_of(db.dirty, "sessions"))]
    ELSE [raised |-> FALSE,
          db |-> [new |-> {}, dirty |-> db.dirty \cup db.new,
                  state |-> "ACTIVE"],
          vehicles |-> with(veh, rows_of(db.new, "vehicles")),
          sessions |-> with(sess, rows_of(db.new, "sessions"))]

\* Session.commit: flush, then the transaction is committed
Session_commit(db, veh, sess) ==
    LET f == Session_flush(db, veh, sess) IN
    IF f.raised THEN f ELSE [f EXCEPT !.db.dirty = {}]

\* Session.rollback: what was flushed and not committed is undone, what is
\* pending is expunged, and the session is usable again
Session_rollback(db, veh, sess) ==
    [raised |-> FALSE, db |-> CleanSession,
     vehicles |-> without(veh, keys_of(db.dirty, "vehicles")),
     sessions |-> without(sess, keys_of(db.dirty, "sessions"))]

\* send_response: sendall on a socket that is not usable raises socket.error,
\* which send_response logs
Respond(c, vid, out) ==
    answers' = IF sockets[c] = "ok"
               THEN [answers EXCEPT ![c] = Append(@, [vid |-> vid, out |-> out])]
               ELSE answers

\* the handler goes to its next statement
Goto(c, label) == inflight' = [inflight EXCEPT ![c].pc = label]

\* the accept loop hands a new connection to a handler thread
accept(c) ==
    /\ threads["accept"] = "running"
    /\ threads[c] = "none"
    /\ threads' = [threads EXCEPT ![c] = "running"]
    /\ UNCHANGED <<sockets, inflight, answers, dbsession, writer, datagrams>>
    /\ UNCHANGED <<clockVars, sessionVars, placeVars, wireVars, motionVars>>

\* the client closes its end of the connection
peer_close(c) ==
    /\ threads[c] = "running"
    /\ sockets[c] = "ok"
    /\ sockets' = [sockets EXCEPT ![c] = "peer_closed"]
    /\ UNCHANGED <<threads, inflight, answers, dbsession, writer, datagrams>>
    /\ UNCHANGED <<clockVars, sessionVars, placeVars, wireVars, motionVars>>

\* a mutant: a socket error is not caught in the handler and stops the server
handle_client_fault_stopping(c) ==
    /\ threads[c] = "running"
    /\ inflight[c].pc = "recv"
    /\ sockets[c] = "ok"
    /\ threads' = [t \in DOMAIN threads |->
                     IF threads[t] = "running" THEN "ended" ELSE threads[t]]
    /\ sockets' = [sockets EXCEPT ![c] = "closed"]
    /\ writer' = IF writer = c THEN NoWriter ELSE writer
    /\ UNCHANGED <<inflight, answers, dbsession, datagrams>>
    /\ UNCHANGED <<clockVars, sessionVars, placeVars, wireVars, motionVars>>

\* handle_client: conn.recv raises socket.error; the except clause logs it and
\* the finally clause closes the connection (main.py: and the thread's sqlite
\* connection, which ends its transaction); the thread ends
handle_client_fault(c) ==
    /\ threads[c] = "running"
    /\ inflight[c].pc = "recv"
    /\ sockets[c] = "ok"
    /\ threads' = [threads EXCEPT ![c] = "ended"]
    /\ sockets' = [sockets EXCEPT ![c] = "closed"]
    /\ writer' = IF writer = c THEN NoWriter ELSE writer
    /\ UNCHANGED <<inflight, answers, dbsession, datagrams>>
    /\ UNCHANGED <<clockVars, sessionVars, placeVars, wireVars, motionVars>>

\* handle_client: one pass of `while True: data = conn.recv(1024); if data:`.
\* After the peer has closed, recv returns b"" at once, the if has no else and
\* the loop reads again. Otherwise a REGISTER message arrives and is
\* dispatched to RegisterCommand.
handle_client_recv(c) ==
    /\ threads[c] = "running"
    /\ inflight[c].pc = "recv"
    /\ IF sockets[c] = "peer_closed"
       THEN UNCHANGED <<threads, sockets, writer, inflight>>
       ELSE /\ sockets[c] = "ok"
            /\ inflight[c].n < MaxRequests
            /\ \E vid \in RegisterIds :
                 inflight' = [inflight EXCEPT
                                ![c] = [pc |-> "execute", vid |-> vid,
                                        token |-> "", n |-> @.n + 1]]
            /\ UNCHANGED <<threads, sockets, writer>>
    /\ UNCHANGED <<answers, dbsession, datagrams>>
    /\ UNCHANGED <<clockVars, sessionVars, placeVars, wireVars, motionVars>>

\* RegisterCommand._execute up to `if vehicle_exists(...)`: TransitSystem.py's
\* query flushes the shared session first
RegisterCommand_vehicle_exists(c) ==
    LET vid == inflight[c].vid
        q == IF impl = "main"
             THEN [raised |-> FALSE, db |-> dbsession, vehicles |-> vehicles,
                   sessions |-> sessions]
             ELSE Session_flush(dbsession, vehicles, sessions)
    IN
    /\ threads[c] = "running"
    /\ inflight[c].pc = "execute"
    /\ dbsession' = q.db
    /\ vehicles' = q.vehicles
    /\ sessions' = q.sessions
    /\ IF q.raised
       THEN Respond(c, vid, <<"ERROR:Internal server error">>) /\ Goto(c, "recv")
       ELSE IF vehicle_exists(q.vehicles, vid)
       THEN Respond(c, vid, <<"EXISTS">>) /\ Goto(c, "recv")
       ELSE UNCHANGED answers /\ Goto(c, "register")
    /\ UNCHANGED <<threads, sockets, writer, datagrams>>
    /\ UNCHANGED <<impl, nuuid, ret>>
    /\ UNCHANGED <<clockVars, placeVars, wireVars, motionVars>>

\* register_vehicle. main.py: the INSERT and the commit on the thread's own
\* sqlite connection; the INSERT waits for the write lock and gives up
\* ("database is locked", rollback, False); on the primary key it raises
\* IntegrityError, which is answered False without a rollback, so that the
\* transaction the INSERT began stays open. TransitSystem.py: Session.add.
RegisterCommand_register_vehicle(c) ==
    LET vid == inflight[c].vid IN
    /\ threads[c] = "running"
    /\ inflight[c].pc = "register"
    /\ IF impl = "main"
       THEN /\ IF writer \notin {NoWriter, c}
               THEN /\ Respond(c, vid, <<"ERROR/Registration failed">>)
                    /\ Goto(c, "recv")
                    /\ UNCHANGED <<vehicles, writer>>
               ELSE IF vehicle_exists(vehicles, vid)
               THEN /\ Respond(c, vid, <<"ERROR/Registration failed">>)
                    /\ Goto(c, "recv")
                    /\ writer' = c
                    /\ UNCHANGED vehicles
               ELSE /\ vehicles' = register_vehicle(impl, vehicles, vid,
                                                    NoPassword, FirstChar[vid])
                    /\ writer' = NoWriter
                    /\ Goto(c, "create_session")
                    /\ UNCHANGED answers
            /\ UNCHANGED dbsession
       ELSE /\ dbsession' =
                 [dbsession EXCEPT !.new = @ \cup
                    {Pending(c, "vehicles", vid,
                             register_vehicle(impl, << >>, vid, NoPassword,
                                              FirstChar[vid])[vid])}]
            /\ Goto(c, "commit")
            /\ UNCHANGED <<vehicles, writer, answers>>
    /\ UNCHANGED <<threads, sockets, datagrams>>
    /\ UNCHANGED <<impl, sessions, nuuid, ret>>
    /\ UNCHANGED <<clockVars, placeVars, wireVars, motionVars>>

\* TransitSystem.py register_vehicle: self.session.commit()
Database_register_vehicle_commit(c) ==
    LET r == Session_commit(dbsession, vehicles, sessions) IN
    /\ threads[c] = "running"
    /\ inflight[c].pc = "commit"
    /\ dbsession' = r.db
    /\ vehicles' = r.vehicles
    /\ sessions' = r.sessions
    /\ Goto(c, IF r.raised THEN "rollback" ELSE "create_session")
    /\ UNCHANGED <<threads, sockets, answers, writer, datagrams>>
    /\ UNCHANGED <<impl, nuuid, ret>>
    /\ UNCHANGED <<clockVars, placeVars, wireVars, motionVars>>

\* TransitSystem.py register_vehicle: the except clause; RegisterCommand
\* answers the False
Database_register_vehicle_rollback(c) ==
    LET r == Session_rollback(dbsession, vehicles, sessions) IN
    /\ threads[c] = "running"
    /\ inflight[c].pc = "rollback"
    /\ dbsession' = r.db
    /\ vehicles' = r.vehicles
    /\ sessions' = r.sessions
    /\ Respond(c, inflight[c].vid, <<"ERROR/Registration failed">>)
    /\ Goto(c, "recv")
    /\ UNCHANGED <<threads, sockets, writer, datagrams>>
    /\ UNCHANGED <<impl, nuuid, ret>>
    /\ UNCHANGED <<clockVars, placeVars, wireVars, motionVars>>

\* create_session and the response. main.py: the INSERT and commit on the
\* thread's connection; when the write lock is held by another connection the
\* sqlite error is caught and "" is returned, which is sent as the token.
\* TransitSystem.py: Session.add.
RegisterCommand_create_session(c) ==
    LET vid == inflight[c].vid
        session_id == Uuid[nuuid + 1]
    IN
    /\ threads[c] = "running"
    /\ inflight[c].pc = "create_session"
    /\ nuuid < MaxSessions
    /\ nuuid' = nuuid + 1
    /\ IF impl = "main"
       THEN /\ IF writer \notin {NoWriter, c}
               THEN /\ Respond(c, vid, <<vid, "">>)
                    /\ UNCHANGED <<sessions, writer>>
               ELSE /\ sessions' = create_session(impl, sessions, now,
                                                  session_id, vid)
                    /\ writer' = NoWriter
                    /\ Respond(c, vid, <<vid, session_id>>)
            /\ Goto(c, "recv")
            /\ UNCHANGED dbsession
       ELSE /\ dbsession' =
                 [dbsession EXCEPT !.new = @ \cup
                    {Pending(c, "sessions", session_id,
                             new_session(impl, now, vid))}]
            /\ inflight' = [inflight EXCEPT ![c].pc = "session_commit",
                                            ![c].token = session_id]
            /\ UNCHANGED <<sessions, writer, answers>>
    /\ UNCHANGED <<threads, sockets, datagrams>>
    /\ UNCHANGED <<impl, vehicles, ret>>
    /\ UNCHANGED <<clockVars, placeVars, wireVars, motionVars>>

\* TransitSystem.py create_session: self.session.commit(), which no except
\* clause of create_session guards: an exception leaves _execute and
\* Command.execute answers it
Database_create_session_commit(c) ==
    LET r == Session_commit(dbsession, vehicles, sessions) IN
    /\ threads[c] = "running"
    /\ inflight[c].pc = "session_commit"
    /\ dbsession' = r.db
    /\ vehicles' = r.vehicles
    /\ sessions' = r.sessions
    /\ Respond(c, inflight[c].vid,
               IF r.raised THEN <<"ERROR:Internal server error">>
               ELSE <<inflight[c].vid, inflight[c].token>>)
    /\ Goto(c, "recv")
    /\ UNCHANGED <<threads, sockets, writer, datagrams>>
    /\ UNCHANGED <<impl, nuuid, ret>>
    /\ UNCHANGED <<clockVars, placeVars, wireVars, motionVars>>

\* the statements of a handler thread
handle_client(c) ==
    \/ handle_client_recv(c)
    \/ RegisterCommand_vehicle_exists(c)
    \/ RegisterCommand_register_vehicle(c)
    \/ Database_register_vehicle_commit(c)
    \/ Database_register_vehicle_rollback(c)
    \/ RegisterCommand_create_session(c)
    \/ Database_create_session_commit(c)

NextConnections ==
    \E c \in Connections :
        \/ accept(c)
        \/ peer_close(c)
        \/ handle_client_fault(c)
        \/ handle_client(c)

SpecConnections == InitServerSpec /\ [][NextConnections]_vars

\* every handler thread is scheduled
FairConnections ==
    /\ SpecConnections
    /\ \A c \in Connections : WF_vars(handle_client(c))

\* the vehicles the launch scripts insert before they start the processes
LaunchedVehicles ==
    [v \in VehicleIds |->
       [vehicle_password |-> NoPassword, vehicle_type |-> FirstChar[v],
        status |-> "IDLE"]]

InitVehicle ==
    /\ impl = "TransitSystem"
    /\ vehicles = LaunchedVehicles
    /\ sessions = << >>
    /\ nuuid = 0
    /\ ret = NoOperation
    /\ now = 0
    /\ nadv = 0
    /\ occupancy = EmptyBag
    /\ pc = [v \in VehicleIds |-> "ready"]
    /\ arg = [v \in VehicleIds |-> ""]
    /\ res = [v \in VehicleIds |-> NoCall]
    /\ ncalls = [v \in VehicleIds |-> 0]
    /\ nstarted = 0
    /\ InitWire
    /\ InitNet
    /\ \E r \in RouteTables :
         routes = [v \in VehicleIds |-> IF v = SelfId THEN r ELSE << >>]
    /\ \E t \in SessionsHeld : self = Vehicle_init(SelfId, t)
    /\ thread = "constructed"
    /\ probe = NoProbe
    /\ omcalls = 0
    /\ events = << >>

NextVehicle ==
    \/ run
    \/ run_set_is_running
    \/ run_route_loop
    \/ \E p \in PlaceIds : try_enter_place_check(Bystander, p)
    \/ try_enter_place_insert(Bystander)
    \/ remove_vehicle_from_place(Bystander)
    \/ \E lon \in Longitudes, lat \in Latitudes :
         handle_udp_location(Bystander, lon, lat)

SpecVehicle == InitVehicle /\ [][NextVehicle]_vars

\* the threads of the vehicle process are scheduled: run goes on to line 181
\* and the loop makes its next pass
FairVehicle ==
    /\ SpecVehicle
    /\ WF_vars(run)
    /\ WF_vars(run_set_is_running)
    /\ WF_vars(run_route_loop)

\* ------------------------------------------------- the occupancy manager's claims

\* vehicle v's call returned in this step
CallReturned(v) == ncalls'[v] = ncalls[v] + 1

\* the place has a capacity that limits it
HasCapacity(p) == place_exists(p) /\ Place[p].max_capacity # None

\* the results the vehicles hold with the given status
ResultsWith(st) == {v \in VehicleIds : res[v].op = "try_enter" /\ res[v].status = st}

\* C1: for every place that is not pass-through and has a defined capacity C,
\* in every reachable state, under any interleaving of try_enter and leave
\* calls of concurrently running vehicles, the place holds at most C rows.
C1_OccupancyWithinCapacity ==
    \A p \in DOMAIN Place :
        (~Place[p].pass_through /\ HasCapacity(p))
            => occupancy_count(occupancy, p) <= Place[p].max_capacity

\* C2: from an empty table, when N > C distinct vehicles each call try_enter
\* once on a non-pass-through place of capacity C, in any interleaving, and
\* nobody leaves, exactly C calls return ENTERED, exactly N - C return FULL and
\* the place ends with C rows.
C2_ExactlyCapacityAdmitted ==
    \A p \in DOMAIN Place :
        ( /\ ~Place[p].pass_through /\ HasCapacity(p)
          /\ Cardinality(VehicleIds) > Place[p].max_capacity
          /\ \A v \in VehicleIds :
                /\ pc[v] = "ready" /\ ncalls[v] = 1
                /\ res[v].op = "try_enter" /\ res[v].place_id = p )
        => /\ Cardinality(ResultsWith("ENTERED")) = Place[p].max_capacity
           /\ Cardinality(ResultsWith("FULL"))
                = Cardinality(VehicleIds) - Place[p].max_capacity
           /\ occupancy_count(occupancy, p) = Place[p].max_capacity

\* C3: no row ever exists for a pass-through place: try_enter on a pass-through
\* place returns (True, PASSTHROUGH) and leaves the table as it was, whatever
\* the place's capacity and the rows present.
C3_PassThroughHoldsNoRow ==
    /\ \A r \in BagToSet(occupancy) : ~Place[r.place_id].pass_through
    /\ [][ /\ \A r \in BagToSet(occupancy') : ~Place[r.place_id].pass_through
           /\ \A v \in VehicleIds, p \in DOMAIN Place :
                ( /\ Place[p].pass_through
                  /\ pc[v] = "ready"
                  /\ \/ CallReturned(v) /\ res'[v].op = "try_enter"
                                        /\ res'[v].place_id = p
                     \/ pc'[v] = "insert" /\ arg'[v] = p )
                => /\ CallReturned(v)
                   /\ res'[v].ok /\ res'[v].status = "PASSTHROUGH"
                   /\ occupancy' = occupancy ]_vars

\* a try_enter on the pass-through place of capacity 0 (which is_place_full
\* calls full) returned PASSTHROUGH while other rows were in the table
C3_Witness ==
    \E v \in VehicleIds :
        /\ res[v].op = "try_enter" /\ res[v].place_id = "P2"
        /\ res[v].status = "PASSTHROUGH"
        /\ is_place_full(occupancy, "P2")
        /\ occupancy # EmptyBag

\* C4: after any sequence of try_enter and leave calls, repeated try_enter of
\* one vehicle included, every vehicle id is in at most one row.
C4_AtMostOneRowPerVehicle ==
    \A v \in VehicleIds : vehicle_row_count(occupancy, v) <= 1

\* the stay time C5 states: the place's, 60 s when unset
StatedStay(p) ==
    IF Place[p].stay_time_seconds = None
    THEN DEFAULT_STAY_SECONDS
    ELSE Place[p].stay_time_seconds

\* the count is at the capacity
AtCapacity(occ, p) ==
    HasCapacity(p) /\ occupancy_count(occ, p) >= Place[p].max_capacity

\* C5: try_enter decides in this order: unknown place -> (False, INVALID_PLACE);
\* pass-through -> (True, PASSTHROUGH); defined capacity and count >= capacity
\* -> (False, FULL); otherwise it creates exactly one row (vehicle, place) with
\* leave_after = now + the place's stay time (60 s when unset) and returns
\* (True, ENTERED). The three other outcomes leave the table unchanged.
C5_TryEnterDecision ==
    [][ \A v \in VehicleIds :
          /\ \* the check returned early
             (pc[v] = "ready" /\ CallReturned(v) /\ res'[v].op = "try_enter")
             => LET p == res'[v].place_id IN
                /\ occupancy' = occupancy
                /\ IF ~place_exists(p)
                   THEN res'[v].status = "INVALID_PLACE" /\ ~res'[v].ok
                   ELSE IF Place[p].pass_through
                   THEN res'[v].status = "PASSTHROUGH" /\ res'[v].ok
                   ELSE /\ res'[v].status = "FULL" /\ ~res'[v].ok
                        /\ AtCapacity(occupancy, p)
          /\ \* the check went on to the insert
             (pc[v] = "ready" /\ pc'[v] = "insert")
             => LET p == arg'[v] IN
                /\ place_exists(p) /\ ~Place[p].pass_through
                /\ ~AtCapacity(occupancy, p)
                /\ occupancy' = occupancy
          /\ \* the insert
             (pc[v] = "insert" /\ pc'[v] = "ready")
             => LET p == arg[v] IN
                /\ CallReturned(v) /\ res'[v].op = "try_enter"
                /\ res'[v].place_id = p
                /\ res'[v].status = "ENTERED" /\ res'[v].ok
                /\ \E r \in BagToSet(occupancy') :
                     /\ r.vehicle_id = v /\ r.place_id = p
                     /\ r.leave_after = now + timedelta_seconds(StatedStay(p))
                     /\ occupancy' = occupancy (+) SetToBag({r}) ]_vars

\* C6: is_full(place) is true exactly when the place exists, has a defined
\* capacity and holds at least that many rows; a place of unlimited capacity
\* is never full, however many rows it holds; is_full changes no state.
C6_IsFullExactly ==
    [][ \A v \in VehicleIds :
          (CallReturned(v) /\ res'[v].op = "is_full")
          => /\ res'[v].ok = AtCapacity(occupancy, res'[v].place_id)
             /\ occupancy' = occupancy
             /\ pc' = pc /\ arg' = arg /\ now' = now ]_vars

\* is_full answered True for the place of capacity 1 holding one row, and
\* another vehicle's is_full answered False for the unlimited place
C6_Witness ==
    \E v, w \in VehicleIds :
        /\ res[v].op = "is_full" /\ res[v].place_id = "P1" /\ res[v].ok
        /\ occupancy_count(occupancy, "P1") = 1
        /\ res[w].op = "is_full" /\ res[w].place_id = "P4" /\ ~res[w].ok

\* C7: leave(vehicle) is idempotent: after it returns the vehicle holds no row,
\* a leave of a vehicle without a row removes nothing and reports so, and the
\* rows of every other vehicle are unchanged.
C7_LeaveIdempotent ==
    [][ \A v \in VehicleIds :
          (CallReturned(v) /\ res'[v].op = "leave")
          => /\ vehicle_rows(occupancy', v) = {}
             /\ \A w \in VehicleIds \ {v} :
                  \A r \in vehicle_rows(occupancy, w) \cup vehicle_rows(occupancy', w) :
                      CopiesIn(r, occupancy') = CopiesIn(r, occupancy)
             /\ (vehicle_rows(occupancy, v) = {})
                  => (~res'[v].ok /\ occupancy' = occupancy) ]_vars

\* ------------------------------------------------- the session authority's claims

\* this step is a call of validate_session
ValidationStep == ret'.op = "validate_session" /\ now' = now /\ sessions' = sessions

\* the instant the stored expiry names, in ticks
ExpiryInstant(row) ==
    IF impl = "main" THEN row.expires_at * TicksPerSecond ELSE row.expires_at

\* the token is known and bound to the vehicle id
BoundTo(session_id, vid) ==
    session_id \in DOMAIN sessions /\ sessions[session_id].vehicle_id = vid

\* C8: validate(token, claimed_id) returns VALID only if the token exists, is
\* bound to claimed_id and the current time is strictly before the token's
\* expiry; at or after the expiry instant a correctly bound token yields
\* SESSION_EXPIRED.
C8_ValidOnlyBeforeExpiry ==
    [][ ValidationStep =>
          LET t == ret'.arg
              v == ret'.vid
          IN /\ (ret'.out = <<"VALID">>)
                  => (BoundTo(t, v) /\ now < ExpiryInstant(sessions[t]))
             /\ (BoundTo(t, v) /\ now >= ExpiryInstant(sessions[t]))
                  => ret'.out = <<"SESSION_EXPIRED">> ]_vars

\* what C9 states of one validation
C9_Statement(t, v, out) ==
    /\ out \in {<<"VALID">>, <<"INVALID_SESSION">>, <<"SESSION_EXPIRED">>}
    /\ ~BoundTo(t, v) => out = <<"INVALID_SESSION">>
    /\ (out = <<"SESSION_EXPIRED">>) => BoundTo(t, v)

\* C9 as stated: validate returns exactly one of VALID, INVALID_SESSION,
\* SESSION_EXPIRED, the binding checked before the expiry: an unknown token or a
\* token bound to another vehicle id yields INVALID_SESSION even when it is
\* expired; SESSION_EXPIRED is returned only for a known, correctly bound token.
C9_ThreeResultsBindingFirst ==
    [][ ValidationStep => C9_Statement(ret'.arg, ret'.vid, ret'.out) ]_vars

\* C9 as amended: the statement holds of every non-empty token; the empty token
\* yields SESSION_ID_MISSING in main.py and INVALID_SESSION in TransitSystem.py.
C9_ThreeResultsForNonEmptyToken ==
    [][ ValidationStep =>
          IF ret'.arg = "" /\ impl = "main"
          THEN ret'.out = <<"SESSION_ID_MISSING">>
          ELSE C9_Statement(ret'.arg, ret'.vid, ret'.out) ]_vars

\* a token bound to another vehicle and already expired was answered
\* INVALID_SESSION
C9_Witness ==
    /\ ret.op = "validate_session" /\ ret.out = <<"INVALID_SESSION">>
    /\ ret.arg \in DOMAIN sessions
    /\ sessions[ret.arg].vehicle_id # ret.vid
    /\ past_expiry(impl, now, sessions[ret.arg].expires_at)

\* the session ids bound to vid that validate VALID now
ValidTokensIn(sess, at, vid) ==
    {t \in DOMAIN sess : validate_session(impl, sess, at, t, vid) = "VALID"}

ValidTokens(vid) == ValidTokensIn(sessions, now, vid)

\* C10: sessions are never revoked: every create (a successful REGISTER or
\* LOGIN) returns a token distinct from all earlier ones, and leaves every
\* earlier session as it was, so that each token stays VALID until its own
\* expiry and several tokens of one vehicle are VALID at the same time.
C10_SessionsNeverRevoked ==
    [][ /\ \A t \in DOMAIN sessions :
              t \in DOMAIN sessions' /\ sessions'[t] = sessions[t]
        /\ (now' = now) =>
              \A vid \in ClientIds :
                  ValidTokens(vid) \subseteq ValidTokensIn(sessions', now', vid)
        /\ (ret'.op \in {"REGISTER", "LOGIN"} /\ Len(ret'.out) = 2
                /\ ret'.out[1] = ret'.vid /\ nuuid' # nuuid)
           => /\ ret'.out[2] \notin DOMAIN sessions
              /\ ret'.out[2] \in ValidTokensIn(sessions', now', ret'.vid)
              /\ DOMAIN sessions' = DOMAIN sessions \cup {ret'.out[2]} ]_vars

\* after a LOGIN, two tokens of the one vehicle validate VALID at the same time
C10_Witness ==
    /\ ret.op = "LOGIN" /\ Len(ret.out) = 2
    /\ Cardinality(ValidTokens(ret.vid)) >= 2

\* --------------------------------------------------- the vehicle's claims

C12_EmptyRouteStaysIdle ==
    self.route = << >> => self.state = "IDLE" /\ omcalls = 0

\* run has loaded an empty route and returned
C12_Witness ==
    /\ thread = "idle"
    /\ self.session # NoSession
    /\ routes[self.id] = << >>
    /\ self.route = << >>

\* the last position vehicle v reported, as a set of at most one row
last_reported(loc, v) ==
    {loc[i] : i \in {j \in 1..Len(loc) :
                       /\ loc[j].vehicle_id = v
                       /\ \A k \in (j + 1)..Len(loc) : loc[k].vehicle_id # v}}

\* some vehicle other than id last reported a position inside the box
\* around (lat, lon)
OccupiedByAnother(loc, id, lat, lon) ==
    \E v \in VehicleIds \ {id} : \E row \in last_reported(loc, v) :
        /\ abs(row.latitude - lat) < TOLERANCE
        /\ abs(row.longitude - lon) < TOLERANCE

\* the loop is about to make a MOVING pass toward an existing place
MovingPass ==
    /\ thread = "looping"
    /\ self.is_running
    /\ self.state = "MOVING"
    /\ place_exists(next_place_id(self))

ProposedLat == step_toward(self.lat, PlacePosition[next_place_id(self)].latitude)
ProposedLon == step_toward(self.lon, PlacePosition[next_place_id(self)].longitude)

\* C13: a MOVING pass whose proposed position is occupied by another vehicle
\* makes the vehicle DELAYED, leaves its position and route index as they
\* were and does not call try_enter_place.
C13_BlockedStepDelays ==
    [][(/\ MovingPass
        /\ OccupiedByAnother(locations, self.id, ProposedLat, ProposedLon)
        /\ <<self, thread, probe>>' # <<self, thread, probe>>
        /\ self'.is_running = self.is_running)
       => /\ self'.state = "DELAYED"
          /\ self'.lat = self.lat
          /\ self'.lon = self.lon
          /\ self'.current_index = self.current_index
          /\ omcalls' = omcalls
          /\ occupancy' = occupancy]_vars

\* C14: is_position_occupied answers True exactly when a vehicle other than
\* the caller last reported a position inside the box around the proposed
\* one, and it changes no table.
C14_OccupiedExactlyInsideBox ==
    [][probe' # probe =>
         /\ (probe'.result = "True") <=>
               OccupiedByAnother(locations, self.id, probe'.lat, probe'.lon)
         /\ locations' = locations
         /\ vehicles' = vehicles]_vars

\* ------------------------------------------------- the dispatcher's claims

\* handle_command has taken a message
FrameStep == nframes' = nframes + 1

\* what the server persists
Persisted == <<vehicles, sessions, locations>>

\* the first field of an error response
ErrorHeads ==
    {"ERROR", "ERROR:Internal server error", "ERROR:Database error",
     "ERROR: UPDATE_LOCATION requires at least 1 arguments after session ID, got 0."}

\* the message is an UPDATE_LOCATION with a token that is VALID for the
\* sender, a longitude and a latitude, with or without the state field
LocationReport ==
    /\ FrameStep
    /\ ret'.op = "UPDATE_LOCATION"
    /\ Len(request') \in {5, 6}
    /\ BoundTo(request'[3], ret'.vid)
    /\ now < ExpiryInstant(sessions[request'[3]])

\* C15: an UPDATE_LOCATION with a valid session and a longitude or latitude
\* that is no number changes nothing persisted and is answered with an error
\* that contains "Invalid location format".
C15_NonNumericLocationRejected ==
    [][(/\ LocationReport
        /\ ValueError(request'[4]) \/ ValueError(request'[5]))
       => /\ Persisted' = Persisted
          /\ ret'.out = <<"ERROR", "Invalid location format. Longitude",
                          "Latitude must be numbers.">>]_vars

\* C16: an UPDATE_LOCATION with a valid session and numeric longitude and
\* latitude, with or without the state field, is answered OK/Location Updated
\* and appends exactly one location row of the sender.
C16_LocationReportRecorded ==
    [][(/\ LocationReport
        /\ ~ValueError(request'[4])
        /\ ~ValueError(request'[5]))
       => /\ ret'.out = <<"OK", "Location Updated">>
          /\ Len(locations') = Len(locations) + 1
          /\ SubSeq(locations', 1, Len(locations)) = locations
          /\ locations'[Len(locations')].vehicle_id = ret'.vid]_vars

\* the message names a registered session-gated command and carries a token
GatedStep ==
    /\ FrameStep
    /\ ret'.op = "UPDATE_LOCATION"
    /\ ret'.op \in COMMANDS(impl)
    /\ Len(request') >= 3

\* what the token of the message validates to
Validation == validate_session(impl, sessions, now, request'[3], ret'.vid)

\* the answers only UpdateLocationCommand._execute gives
HandlerAnswers ==
    {<<"OK", "Location Updated">>,
     <<"ERROR", "Internal argument processing error">>,
     <<"ERROR", "Invalid location format. Longitude", "Latitude must be numbers.">>,
     <<"ERROR", "Failed to update location in database">>}

\* C17: the handler of a session-gated command runs only when the token
\* validates VALID for the sender; on INVALID_SESSION or SESSION_EXPIRED it
\* does not run, nothing persisted changes, the answer is ERROR/<reason> and
\* the connection stays open.
C17_SessionGate ==
    [][GatedStep =>
         /\ (ret'.out \in HandlerAnswers \/ Persisted' # Persisted)
              => Validation = "VALID"
         /\ Validation \in {"INVALID_SESSION", "SESSION_EXPIRED"}
              => /\ ret'.out = <<"ERROR", Validation>>
                 /\ Persisted' = Persisted
                 /\ conn' = "open"]_vars

\* a valid token of another vehicle was turned down
C17_Witness ==
    /\ ret.op = "UPDATE_LOCATION"
    /\ impl = "main"
    /\ Len(request) = 5
    /\ request[3] \in DOMAIN sessions
    /\ sessions[request[3]].vehicle_id # ret.vid
    /\ now < ExpiryInstant(sessions[request[3]])
    /\ ret.out = <<"ERROR", "INVALID_SESSION">>
    /\ locations = << >>
    /\ conn = "open"

\* the message has fewer than two fields, names no registered command, or
\* has fewer arguments than its handler declares
ProtocolError ==
    /\ FrameStep
    /\ \/ ret'.op \notin COMMANDS(impl)
       \/ ret'.op = "UPDATE_LOCATION" /\ Len(request') < 3

\* C18: a message with fewer than two fields, an unknown command and a wrong
\* argument count are each answered with an error, change nothing persisted
\* and leave the connection open.
C18_ProtocolErrorsReported ==
    [][ProtocolError =>
         /\ ret'.out # << >>
         /\ ret'.out[1] \in ErrorHeads
         /\ Persisted' = Persisted
         /\ conn' = "open"]_vars

RegisterStep == FrameStep /\ ret'.op = "REGISTER"

\* REGISTER of a registered id: EXISTS, no vehicle and no session created
RegisterExisting ==
    ret'.vid \in DOMAIN vehicles =>
        /\ ret'.out = <<"EXISTS">>
        /\ vehicles' = vehicles
        /\ sessions' = sessions

\* REGISTER created one IDLE vehicle and one session whose token it returns
RegisterCreates ==
    /\ DOMAIN vehicles' = DOMAIN vehicles \cup {ret'.vid}
    /\ \A v \in DOMAIN vehicles : vehicles'[v] = vehicles[v]
    /\ vehicles'[ret'.vid].status = "IDLE"
    /\ Len(ret'.out) = 2
    /\ ret'.out[1] = ret'.vid
    /\ DOMAIN sessions' = DOMAIN sessions \cup {ret'.out[2]}
    /\ ret'.out[2] \notin DOMAIN sessions
    /\ \A t \in DOMAIN sessions : sessions'[t] = sessions[t]
    /\ sessions'[ret'.out[2]].vehicle_id = ret'.vid
    /\ now' < ExpiryInstant(sessions'[ret'.out[2]])

\* C19, as stated: REGISTER of a registered id answers EXISTS and creates
\* nothing; REGISTER of any unregistered id creates one IDLE vehicle and one
\* session and answers <vehicle_id>/<token> with a token VALID for it.
C19_RegisterCreatesVehicleAndSession ==
    [][RegisterStep =>
         /\ RegisterExisting
         /\ ret'.vid \notin DOMAIN vehicles => RegisterCreates]_vars

\* C19, amended: the second case holds for the unregistered ids whose first
\* character is a vehicle type; any other unregistered id is answered
\* ERROR:Internal server error and creates nothing.
C19_RegisterOfTaggedId ==
    [][RegisterStep =>
         /\ RegisterExisting
         /\ (ret'.vid \notin DOMAIN vehicles /\ FirstChar[ret'.vid] \in VehicleType)
              => RegisterCreates
         /\ (ret'.vid \notin DOMAIN vehicles /\ FirstChar[ret'.vid] \notin VehicleType)
              => /\ ret'.out = <<"ERROR:Internal server error">>
                 /\ Persisted' = Persisted]_vars

\* a vehicle registered, got its token, and registered again
C19_Witness ==
    /\ ret.op = "REGISTER"
    /\ ret.out = <<"EXISTS">>
    /\ ret.vid \in DOMAIN vehicles
    /\ \E t \in DOMAIN sessions : BoundTo(t, ret.vid)

\* C20: LOGIN of an unregistered id answers UNREGISTERED, LOGIN of a
\* registered id with another credential than the registered one answers
\* INVALID, and neither creates a session.
C20_LoginNeedsCredential ==
    [][(FrameStep /\ ret'.op = "LOGIN") =>
         /\ ret'.vid \notin DOMAIN vehicles
              => ret'.out[1] = "UNREGISTERED" /\ sessions' = sessions
         /\ (/\ ret'.vid \in DOMAIN vehicles
             /\ impl = "main"
             /\ vehicles[ret'.vid].vehicle_password # ret'.arg)
              => ret'.out[1] = "INVALID" /\ sessions' = sessions]_vars

\* ------------------------------------------- the motion state machine's claims

\* the vehicle runs its loop and waits in DELAYED for the one-second retry
\* (the five-second penalty of a failed admission sets self.delayed)
DelayedForRetry ==
    /\ self.state = "DELAYED"
    /\ ~self.delayed
    /\ self.is_running
    /\ thread = "looping"

\* C21: DELAYED is a retry state: a running vehicle that became DELAYED
\* because its next place was full, or because its step was blocked, leaves
\* DELAYED and evaluates the same route step again in IDLE or MOVING.
C21_DelayedIsRetried ==
    DelayedForRetry ~> (self.state \in {"IDLE", "MOVING"})

\* the events this step adds
NewEvents == SubSeq(events', Len(events) + 1, Len(events'))

\* the step ends with a status report of the vehicle's state
ReportsNewState ==
    /\ NewEvents # << >>
    /\ NewEvents[Len(NewEvents)].kind = "UPDATE_LOCATION"
    /\ NewEvents[Len(NewEvents)].state = self'.state

\* C22: every change of the motion state is followed, before the next
\* change, by a status report that carries the new state.
C22_TransitionsReported ==
    [][self'.state # self.state => ReportsNewState]_vars

\* the vehicle went from IDLE to MOVING and said so
C22_Witness ==
    /\ self.state = "MOVING"
    /\ events # << >>
    /\ events[Len(events)].kind = "UPDATE_LOCATION"
    /\ events[Len(events)].state = "MOVING"

\* the loop is about to make an IDLE pass on a route step whose place exists
IdlePass ==
    /\ thread = "looping"
    /\ self.is_running
    /\ self.state = "IDLE"
    /\ self.route # << >>
    /\ place_exists(next_place_id(self))

\* C23: an IDLE pass on a step whose place exists makes the vehicle DELAYED,
\* position and route index as they were and try_enter_place not called, when
\* the place is not pass-through and is full; in every other case, that of a
\* pass-through place at its capacity included, it makes the vehicle MOVING.
C23_IdleDecision ==
    [][(IdlePass /\ self' # self) =>
         LET p == next_place_id(self) IN
         IF ~Place[p].pass_through /\ AtCapacity(occupancy, p)
         THEN /\ self'.state = "DELAYED"
              /\ self'.lat = self.lat
              /\ self'.lon = self.lon
              /\ self'.current_index = self.current_index
              /\ \A i \in 1..Len(NewEvents) : NewEvents[i].kind # "try_enter_place"
              /\ occupancy' = occupancy
         ELSE self'.state = "MOVING"]_vars

\* the vehicle is MOVING toward the pass-through place of capacity 0, which
\* is_place_full calls full, and the loop did not ask
C23_Witness ==
    /\ self.state = "MOVING"
    /\ self.current_index = 0
    /\ self.route = <<"P2", "P3">>
    /\ AtCapacity(occupancy, "P2")
    /\ omcalls = 0

\* the loop is about to make a MOVING pass whose step ends within the arrival
\* distance of the place, at a position no other vehicle has reported
ArrivalPass ==
    /\ MovingPass
    /\ arrived(ProposedLat, ProposedLon, PlacePosition[next_place_id(self)])
    /\ ~OccupiedByAnother(locations, self.id, ProposedLat, ProposedLon)

\* the loop has made its pass
PassMade ==
    /\ <<self, thread, probe, events>>' # <<self, thread, probe, events>>
    /\ self'.is_running = self.is_running

\* the state after the route index moved on from index i
StateAfterStep(i) == IF i + 1 >= Len(self.route) THEN "FINISHED" ELSE "IDLE"

\* C24: a vehicle that arrives at a pass-through place does not become
\* WAITING and holds no occupancy record: its route index goes up by one and
\* it is FINISHED at the end of the route and IDLE otherwise.
C24_PassThroughArrival ==
    [][(/\ ArrivalPass
        /\ Place[next_place_id(self)].pass_through
        /\ PassMade)
       => /\ self'.lat = ProposedLat
          /\ self'.lon = ProposedLon
          /\ self'.current_index = self.current_index + 1
          /\ self'.state = StateAfterStep(self.current_index)
          /\ vehicle_rows(occupancy', self.id) = {}]_vars

\* the place admits the vehicle: try_enter_place returns ENTERED
Admits(p) == ~Place[p].pass_through /\ ~AtCapacity(occupancy, p)

\* the place turns the vehicle away: try_enter_place returns FULL
TurnsAway(p) == ~Place[p].pass_through /\ AtCapacity(occupancy, p)

\* C25: a vehicle that arrives at a place that is not pass-through and is
\* admitted becomes WAITING with its record and its route index as it was;
\* when the stay is over the record is deleted, the index goes up by one and
\* the vehicle is FINISHED or IDLE; WAITING is never left for DELAYED or MOVING.
C25_AdmittedArrivalWaits ==
    [][/\ (ArrivalPass /\ Admits(next_place_id(self)) /\ PassMade)
          => /\ self'.state = "WAITING"
             /\ self'.current_index = self.current_index
             /\ \E r \in vehicle_rows(occupancy', self.id) :
                  /\ r.place_id = next_place_id(self)
                  /\ occupancy' = occupancy (+) SetToBag({r})
       /\ (self.state = "WAITING" /\ self'.state # "WAITING")
          => /\ self'.state = StateAfterStep(self.current_index)
             /\ self'.current_index = self.current_index + 1
             /\ vehicle_rows(occupancy', self.id) = {}
       /\ (self'.current_index # self.current_index)
          => vehicle_rows(occupancy', self.id) = {}]_vars

\* C26: a vehicle that arrives and is turned away becomes DELAYED, its route
\* index as it was and no record created, and after the penalty it is MOVING
\* again, not IDLE, toward the same place.
C26_RefusedArrivalRetries ==
    [][/\ (ArrivalPass /\ TurnsAway(next_place_id(self)) /\ PassMade)
          => /\ self'.state = "DELAYED"
             /\ self'.delayed
             /\ self'.current_index = self.current_index
             /\ occupancy' = occupancy
       /\ (self.delayed /\ ~self'.delayed)
          => /\ self'.state = "MOVING"
             /\ self'.current_index = self.current_index
             /\ occupancy' = occupancy]_vars

\* the vehicle that is followed holds an occupancy record
HoldsRecord == vehicle_rows(occupancy, SelfId) # {}

\* C27: every occupancy record the loop's admission creates is deleted again
\* when the loop is scheduled. (No state with such a record is reached: the
\* loop ends before its first admission.)
C27_AdmittedRecordDeleted == HoldsRecord ~> ~HoldsRecord

\* the position the arbiter's query reads for vehicle v is the one v last
\* reported
ArbiterReads(v, row) ==
    \E p \in vehicle_positions(vehicles) :
        /\ p.vehicle_id = v
        /\ p.latitude = row.latitude
        /\ p.longitude = row.longitude

\* C28: the position the arbiter reads for a vehicle is the one whose report
\* or beacon the server last processed, and is_position_occupied asked by
\* another vehicle about a point inside the box around it answers True.
C28_ArbiterSeesProcessedReports ==
    /\ [](\A v \in VehicleIds : \A row \in last_reported(locations, v) :
            ArbiterReads(v, row))
    /\ [][(/\ probe' # probe
           /\ \E row \in last_reported(locations, Bystander) :
                within_tolerance(row, probe'.lat, probe'.lon))
          => probe'.result = "True"]_vars

\* ------------------------------------------- the dispatcher's responses

\* C29: every message handed to handle_command is answered with exactly one
\* response on its connection, whatever the outcome.
C29_OneResponsePerFrame ==
    [][FrameStep => ret'.out # << >>]_vars

\* the handler of the message raised: REGISTER of an id whose first character
\* is no vehicle type
HandlerRaised ==
    /\ FrameStep
    /\ ret'.op = "REGISTER"
    /\ FirstChar[ret'.vid] \notin VehicleType

\* C30: an exception raised in a command handler is answered with the
\* generic error, creates no vehicle and no session, and leaves the
\* connection open for the messages that follow.
C30_HandlerExceptionCaught ==
    [][HandlerRaised =>
         /\ ret'.out = <<"ERROR:Internal server error">>
         /\ Persisted' = Persisted
         /\ conn' = "open"]_vars

\* after two messages were served, REGISTER of X900 was answered with the
\* generic error, and the connection takes the next message
C30_Witness ==
    /\ ret.op = "REGISTER"
    /\ ret.vid = "X900"
    /\ ret.out = <<"ERROR:Internal server error">>
    /\ "X900" \notin DOMAIN vehicles
    /\ nframes = 2
    /\ ENABLED handle_command(<<"B101", "LOGIN">>)

\* C32: the listener applies a datagram exactly when it has three fields
\* whose second and third are numeric, and then appends one location record
\* (vehicle id, longitude, latitude) whatever the sessions are; every other
\* datagram changes nothing; no datagram is answered and the listener goes on.
Applies(d) ==
    /\ Len(d) = 3
    /\ d[2] \in NumericFields
    /\ d[3] \in NumericFields

C32_BeaconIngest ==
    [][Len(datagrams') = Len(datagrams) + 1 =>
         LET d == datagrams'[Len(datagrams')] IN
           /\ IF Applies(d)
              THEN locations' = Append(locations,
                                       [vehicle_id |-> d[1],
                                        longitude |-> FloatValue[d[2]],
                                        latitude |-> FloatValue[d[3]]])
              ELSE locations' = locations
           /\ UNCHANGED <<vehicles, sessions, answers, conn, ret>>
           /\ threads'["udp"] = "running"
           /\ (Len(datagrams') < MaxDatagrams
                 => \A e \in Datagrams : ENABLED udp_recvfrom(e))]_vars

\* a datagram was recorded for an id that has no session, after one that was
\* dropped
C32_Witness ==
    /\ Len(datagrams) = 2
    /\ ~Applies(datagrams[1])
    /\ Applies(datagrams[2])
    /\ Len(locations) = 1
    /\ locations[1].vehicle_id = "X900"
    /\ sessions = << >>

\* C33: the location history is append-only and a session is not changed
\* after its creation: no step of the server (REGISTER, LOGIN,
\* UPDATE_LOCATION, a datagram, a validation, an error path) removes or
\* alters a recorded location or the binding or expiry of a session, so a
\* token that is VALID stays VALID at every later time before its expiry.
IsPrefix(old, new) ==
    /\ Len(old) <= Len(new)
    /\ SubSeq(new, 1, Len(old)) = old

C33_HistoryAndSessionsKept ==
    [][ /\ IsPrefix(locations, locations')
        /\ \A t \in DOMAIN sessions :
              /\ t \in DOMAIN sessions'
              /\ sessions'[t].vehicle_id = sessions[t].vehicle_id
              /\ sessions'[t].expires_at = sessions[t].expires_at
              /\ (/\ validate_session(impl, sessions, now, t,
                                       sessions[t].vehicle_id) = "VALID"
                  /\ now' >= now
                  /\ now' < ExpiryInstant(sessions[t]))
                 => validate_session(impl, sessions', now', t,
                                     sessions[t].vehicle_id) = "VALID" ]_vars

\* a position of B101 was recorded over TCP after an earlier one, while two
\* tokens exist and time has passed since the first was issued
C33_Witness ==
    /\ Len(locations) = 2
    /\ locations[1].vehicle_id = locations[2].vehicle_id
    /\ ret.op = "UPDATE_LOCATION"
    /\ Cardinality(DOMAIN sessions) = 2
    /\ now > 0

\* TransitSystem.py: a datagram was recorded after a REGISTER
C33_WitnessBeacon ==
    /\ impl = "TransitSystem"
    /\ Len(locations) = 2
    /\ locations[1] # locations[2]
    /\ locations[1].vehicle_id = locations[2].vehicle_id
    /\ datagrams # << >>
    /\ DOMAIN sessions # {}

\* C34: for a vehicle with a non-empty route the index stays within
\* 0..length of the route and equals the length exactly when the state is
\* FINISHED, so that the lookups of the IDLE and MOVING branches use an index
\* below the length; the advance at the end of a stay or of a pass-through
\* arrival keeps this from every index below the length.
IndexWithinRoute(s) ==
    /\ s.current_index \in 0..Len(s.route)
    /\ (s.current_index = Len(s.route)) <=> (s.state = "FINISHED")
    /\ (s.state \in {"IDLE", "MOVING"}) => s.current_index < Len(s.route)

C36_LoopNotEndedEarly ==
    [][(thread = "looping" /\ thread' = "returned")
         => (self.is_running /\ self'.state = "FINISHED")]_vars

\* the loop runs over a route whose places are all in the table
RunningOnKnownRoute ==
    /\ self.is_running
    /\ thread = "looping"
    /\ self.route # << >>
    /\ \A i \in 1..Len(self.route) : place_exists(self.route[i])

\* no place holds a record; no other vehicle has a position the arbiter
\* could find inside the box
NothingInTheWay ==
    /\ occupancy = EmptyBag
    /\ \A row \in vehicle_positions(vehicles) : row.latitude = None

\* C37: when the threads are scheduled fairly, a running vehicle with a
\* non-empty route whose places all exist reaches FINISHED, provided that
\* every full place is freed again and every blocking vehicle moves away.
C37_RunningVehicleFinishes ==
    ([]<>NothingInTheWay) => (RunningOnKnownRoute ~> (self.state = "FINISHED"))

\* C31: a socket error on one connection ends the handler of that
\* connection only: the handlers of the other connections, the UDP listener
\* and the accept loop stay as they are and go on serving, and the error
\* changes nothing that is stored.
FaultOn(c) == threads[c] = "running" /\ threads'[c] = "ended"

\* the threads other than the ended handler of c go on serving
StillServing(c) ==
    /\ threads["accept"] = "running"
    /\ impl = "TransitSystem" =>
         (threads["udp"] = "running"
            /\ \A parts \in Datagrams : ENABLED udp_recvfrom(parts))
    /\ \A d \in Connections \ {c} :
         /\ threads[d] = "none" => ENABLED accept(d)
         /\ (threads[d] = "running" /\ sockets[d] = "ok"
               /\ inflight[d].pc = "recv" /\ inflight[d].n < MaxRequests)
              => ENABLED handle_client_recv(d)
         /\ (threads[d] = "running" /\ inflight[d].pc = "execute")
              => ENABLED RegisterCommand_vehicle_exists(d)

C31_FaultEndsOneHandler ==
    [][\A c \in Connections :
         /\ FaultOn(c) =>
              /\ \A t \in DOMAIN threads \ {c} : threads'[t] = threads[t]
              /\ \A d \in Connections \ {c} :
                   /\ sockets'[d] = sockets[d]
                   /\ inflight'[d] = inflight[d]
                   /\ answers'[d] = answers[d]
              /\ UNCHANGED <<vehicles, sessions, locations, dbsession>>
         /\ threads[c] = "ended" => StillServing(c)]_vars

\* the handler of c1 has ended on a socket error, and c2, accepted and served
\* afterwards or alongside, has its success response
C31_Witness ==
    /\ threads["c1"] = "ended"
    /\ sockets["c1"] = "closed"
    /\ threads["c2"] = "running"
    /\ Len(answers["c2"]) = 1
    /\ Len(answers["c2"][1].out) = 2
    /\ answers["c2"][1].out[2] \in DOMAIN sessions

\* the peer has closed the connection and the handler is still in its loop
ReadsNothing(c) == threads[c] = "running" /\ sockets[c] = "peer_closed"

\* C38: after the peer has closed a connection, so that reads return no data,
\* the handler leaves its read loop, closes the connection and ends.
C38_ClosedConnectionEndsHandler ==
    \A c \in Connections : ReadsNothing(c) ~> (threads[c] = "ended")

\* the REGISTER messages for vid that have been answered, and how
Answered(vid) ==
    {c \in Connections :
       \E i \in 1..Len(answers[c]) : answers[c][i].vid = vid}

Succeeded(vid) ==
    {c \in Connections :
       \E i \in 1..Len(answers[c]) :
          /\ answers[c][i].vid = vid
          /\ Len(answers[c][i].out) = 2
          /\ answers[c][i].out[1] = vid
          /\ answers[c][i].out[2] \in DOMAIN sessions}

Refused(vid) ==
    {c \in Connections :
       \E i \in 1..Len(answers[c]) :
          /\ answers[c][i].vid = vid
          /\ answers[c][i].out \in {<<"EXISTS">>, <<"ERROR/Registration failed">>,
                                    <<"ERROR:Internal server error">>}}

\* both connections have sent one REGISTER for vid and both are answered
BothAnswered(vid) ==
    \A c \in Connections :
        /\ inflight[c].pc = "recv"
        /\ inflight[c].n = 1
        /\ Len(answers[c]) = 1
        /\ answers[c][1].vid = vid

\* C39: of the REGISTER messages for one unregistered id that are processed
\* at the same time on different connections, exactly one is answered
\* <vehicle_id>/<token>, every other is answered EXISTS or an error and
\* creates no session, and the id has one vehicle record at most.
C39_OneRegistrationWins ==
    \A vid \in RegisterIds :
        BothAnswered(vid) =>
            /\ Cardinality(Succeeded(vid)) = 1
            /\ Refused(vid) = Connections \ Succeeded(vid)
            /\ Cardinality({t \in DOMAIN sessions :
                              sessions[t].vehicle_id = vid}) = 1

====
